---- MODULE Spec2Model ----
(***************************************************************************)
(* A model of the coding agent of my-agent: the workspace guard and the    *)
(* tool executor of tools.py, the two turn loops and the mode selection of *)
(* agent.py, the transcript store of memory.py and the two shells, the     *)
(* console loop of agent.py and the window of gui.py.                      *)
(*                                                                         *)
(* Eight specifications share the variables:                               *)
(*   SpecPath   _resolve_in_workspace as a function of workspace, path and *)
(*              symbolic links;                                            *)
(*   SpecTools  a session of execute_tool calls on one filesystem;         *)
(*   Spec       the turn engine (run_turn_responses, run_turn_chat)        *)
(*              driving execute_tool;                                      *)
(*   SpecChat   the message list that run_turn_chat builds and sends;      *)
(*   SpecMemory processes appending to and reading one transcript file;    *)
(*   SpecMode   _choose_api_mode as a function of mode and base URL;       *)
(*   SpecShell  a session of one of the two shells driving the turn engine;*)
(*   SpecShellFair  SpecShell with the scheduling of the threads of the    *)
(*              window: every step that can be taken is taken eventually.  *)
(***************************************************************************)
EXTENDS Integers, Sequences, FiniteSets, TLC

VARIABLES
    workspace,   \* the workspace directory handed to the tools (a path)
    links,       \* the symbolic links of the filesystem: path -> target
    dirs,        \* the directories that exist
    files,       \* the regular files that exist: path -> content
    userPath,    \* SpecPath: the user_path argument of _resolve_in_workspace
    confined,    \* SpecPath: what _resolve_in_workspace did with it
    lastCall,    \* SpecTools: the last (name, arguments) given to execute_tool
    lastOutcome, \* SpecTools: what execute_tool did with it
    mode,        \* Spec: the api mode of the session, "responses" or "chat"
    turn,        \* Spec: the state of the running turn
    memFile,     \* the transcript file .agent/memory.json
    memProcs,    \* SpecMemory: where each process is in MemoryStore.append
    memHist,     \* SpecMemory: the appends completed and who wrote the file
    recalled,    \* SpecMemory: what the last MemoryStore.recent returned
    selection,   \* SpecMode: the arguments and result of _choose_api_mode
    shell,       \* SpecShell: the console loop or the window
    messages     \* SpecChat: the message list of run_turn_chat

vars == <<workspace, links, dirs, files, userPath, confined, lastCall,
          lastOutcome, mode, turn, memFile, memProcs, memHist, recalled,
          selection, shell, messages>>
fsVars == <<workspace, links, dirs, files>>
pathVars == <<userPath, confined>>
toolVars == <<lastCall, lastOutcome>>
turnVars == <<mode, turn>>
memVars == <<memFile, memProcs, memHist, recalled>>
shellVars == <<memVars, selection, shell>>
laterVars == <<shellVars, messages>>

----------------------------------------------------------------------------
(* Paths.  A path is the sequence of its segments below the filesystem     *)
(* root, <<>> being the root itself.  A user path is what a tool receives: *)
(* absolute or relative, with "." and ".." segments still in it.           *)

Root == <<>>
Ws == <<"ws">>
RelPath(segs) == [abs |-> FALSE, segs |-> segs]
AbsPath(segs) == [abs |-> TRUE, segs |-> segs]

\* Path.parent: the root is its own parent.
Parent(p) == IF p = <<>> THEN <<>> ELSE SubSeq(p, 1, Len(p) - 1)

\* Path.parents: every proper ancestor of p.
Parents(p) == {SubSeq(p, 1, k) : k \in 0..(Len(p) - 1)}

\* Path.resolve() (non-strict): "." is dropped, ".." steps to the parent
\* of what is resolved so far (the root's parent is the root), and a
\* component that is a symbolic link is replaced by its target.
RECURSIVE ResolveFrom(_, _, _)
ResolveFrom(prefix, rest, lnk) ==
    IF rest = <<>> THEN prefix
    ELSE LET s == Head(rest)
             p == Append(prefix, s)
         IN  IF s = "." \/ s = "" THEN ResolveFrom(prefix, Tail(rest), lnk)
             ELSE IF s = ".." THEN ResolveFrom(Parent(prefix), Tail(rest), lnk)
             ELSE IF p \in DOMAIN lnk THEN ResolveFrom(lnk[p], Tail(rest), lnk)
             ELSE ResolveFrom(p, Tail(rest), lnk)

Resolve(p, lnk) == ResolveFrom(<<>>, p, lnk)

PathEscape == "Path is outside workspace"

\* A mutant of the guard: "or" for "and" in its test.
resolve_in_workspace_Or(ws, user_path, lnk) ==
    LET candidate == IF ~user_path.abs THEN Resolve(ws \o user_path.segs, lnk)
                     ELSE Resolve(user_path.segs, lnk)
        workspace_resolved == Resolve(ws, lnk)
    IN  IF candidate # workspace_resolved
           \/ workspace_resolved \notin Parents(candidate)
        THEN [raised |-> TRUE, error |-> PathEscape, path |-> <<>>]
        ELSE [raised |-> FALSE, error |-> "", path |-> candidate]

\* A mutant of the guard: the test is left out and nothing is refused.
resolve_in_workspace_NoParentsTest(ws, user_path, lnk) ==
    LET candidate == IF ~user_path.abs THEN Resolve(ws \o user_path.segs, lnk)
                     ELSE Resolve(user_path.segs, lnk)
    IN  [raised |-> FALSE, error |-> "", path |-> candidate]

\* tools.py _resolve_in_workspace: the resolved path, or ValueError.
resolve_in_workspace(ws, user_path, lnk) ==
    LET candidate == IF ~user_path.abs THEN Resolve(ws \o user_path.segs, lnk)
                     ELSE Resolve(user_path.segs, lnk)
        workspace_resolved == Resolve(ws, lnk)
    IN  IF candidate # workspace_resolved
           /\ workspace_resolved \notin Parents(candidate)
        THEN [raised |-> TRUE, error |-> PathEscape, path |-> <<>>]
        ELSE [raised |-> FALSE, error |-> "", path |-> candidate]

----------------------------------------------------------------------------
(* Python values and the provider's argument strings.                      *)
(*                                                                         *)
(* An arguments string is represented by what json.loads makes of it:      *)
(* js = "invalid" is text json.loads rejects, "empty" the empty string     *)
(* (execute_tool parses "{}" instead), "object" a JSON object with the     *)
(* members obj, and "array", "number", "null" the JSON values that are not *)
(* objects.  A member's value is a Python value: a str (t = "str") or an   *)
(* int (t = "int").                                                        *)

StrV(x) == [t |-> "str", v |-> x]
IntV(n) == [t |-> "int", v |-> n]
IsStr(val) == val.t = "str"

NoMembers == [k \in {} |-> StrV(<<>>)]
JsInvalid == [js |-> "invalid", obj |-> NoMembers]
JsEmpty == [js |-> "empty", obj |-> NoMembers]
JsArray == [js |-> "array", obj |-> NoMembers]
JsNumber == [js |-> "number", obj |-> NoMembers]
JsNull == [js |-> "null", obj |-> NoMembers]
JsObject(members) == [js |-> "object", obj |-> members]

\* json.loads(arguments or "{}"): JSONDecodeError, a dict, or a value of
\* another Python type.
json_loads(arguments) ==
    CASE arguments.js = "invalid" -> [err |-> TRUE, py |-> "", d |-> NoMembers]
      [] arguments.js = "empty" -> [err |-> FALSE, py |-> "dict", d |-> NoMembers]
      [] arguments.js = "object" -> [err |-> FALSE, py |-> "dict", d |-> arguments.obj]
      [] arguments.js = "array" -> [err |-> FALSE, py |-> "list", d |-> NoMembers]
      [] arguments.js = "number" -> [err |-> FALSE, py |-> "int", d |-> NoMembers]
      [] OTHER -> [err |-> FALSE, py |-> "NoneType", d |-> NoMembers]

\* dict.get(key, default)
Get(d, key, default) == IF key \in DOMAIN d THEN d[key] ELSE default

\* json.dumps(result): the text whose JSON value is result.
json_dumps(result) == [json |-> result]

----------------------------------------------------------------------------
(* The filesystem: fs = [dirs, files, links].  File contents are the bytes *)
(* on disk, a sequence of one-character strings.                           *)

Fs(d, f, l) == [dirs |-> d, files |-> f, links |-> l]
Exists(fs, p) == p \in fs.dirs \/ p \in DOMAIN fs.files
IsFile(fs, p) == p \in DOMAIN fs.files
Within(ws, p) == p = ws \/ ws \in Parents(p)

\* f with p mapped to c.
Put(f, p, c) == [q \in (DOMAIN f) \cup {p} |-> IF q = p THEN c ELSE f[q]]

Min(a, b) == IF a <= b THEN a ELSE b

\* s[-n:]
LastN(s, n) == IF n = 0 \/ Len(s) <= n THEN s ELSE SubSeq(s, Len(s) - n + 1, Len(s))

\* Path.write_text(content, encoding="utf-8") in text mode on Windows (the
\* platform of SYSTEM_PROMPT and of the powershell of run_shell): every
\* "\n" is written as "\r\n".
RECURSIVE write_text(_)
write_text(content) ==
    IF content = <<>> THEN <<>>
    ELSE IF Head(content) = "\n" THEN <<"\r", "\n">> \o write_text(Tail(content))
    ELSE <<Head(content)>> \o write_text(Tail(content))

\* Path.read_text(encoding="utf-8"): universal newlines, "\r\n" and a lone
\* "\r" are read as "\n".
RECURSIVE read_text(_)
read_text(bytes) ==
    IF bytes = <<>> THEN <<>>
    ELSE IF Head(bytes) = "\r"
         THEN IF Len(bytes) >= 2 /\ bytes[2] = "\n"
              THEN <<"\n">> \o read_text(Tail(Tail(bytes)))
              ELSE <<"\n">> \o read_text(Tail(bytes))
    ELSE <<Head(bytes)>> \o read_text(Tail(bytes))

READ_CAP == 16000
OUTPUT_CAP == 8000
LIST_CAP == 200

\* What a tool did: raised is an exception leaving the tool, result the
\* dict it returned otherwise, fs the filesystem after it, effects the
\* operations it performed on the filesystem and the processes it started.
Returned(result, fs, effects) ==
    [raised |-> FALSE, exc |-> "", result |-> result, fs |-> fs, effects |-> effects]
Raised(exc, fs, effects) ==
    [raised |-> TRUE, exc |-> exc, result |-> NoMembers, fs |-> fs, effects |-> effects]
Failure(error) == [ok |-> FALSE, error |-> error]
Effect(op, p) == [op |-> op, path |-> p]

\* tools.py read_file
read_file(ws, path, fs) ==
    IF ~IsStr(path) THEN Raised("TypeError", fs, {})
    ELSE LET r == resolve_in_workspace(ws, path.v, fs.links)
             resolved == r.path
         IN  IF r.raised THEN Returned(Failure(r.error), fs, {})
             ELSE IF ~Exists(fs, resolved)
                  THEN Returned(Failure("File does not exist"), fs, {})
             ELSE IF ~IsFile(fs, resolved)
                  THEN Returned(Failure("IsADirectoryError"), fs, {})
             ELSE Returned([ok |-> TRUE, path |-> resolved,
                            content |-> LastN(read_text(fs.files[resolved]), READ_CAP)],
                           fs, {Effect("read", resolved)})

\* Path.mkdir(parents=True, exist_ok=True) of directory d: the missing
\* ancestors and d itself are created, unless one of them is a file.
MkdirParents(fs, d) ==
    LET chain == Parents(d) \cup {d}
    IN  IF \E a \in chain : IsFile(fs, a)
        THEN [err |-> TRUE, made |-> {}]
        ELSE [err |-> FALSE, made |-> chain \ fs.dirs]

\* tools.py write_file.  The parent directories are made before the file
\* is written, so they stay when the write fails.
write_file(ws, path, content, fs) ==
    IF ~IsStr(path) THEN Raised("TypeError", fs, {})
    ELSE LET r == resolve_in_workspace(ws, path.v, fs.links)
             resolved == r.path
             mk == MkdirParents(fs, Parent(resolved))
             made == Fs(fs.dirs \cup mk.made, fs.files, fs.links)
             mkdirs == {Effect("mkdir", d) : d \in mk.made}
         IN  IF r.raised THEN Returned(Failure(r.error), fs, {})
             ELSE IF mk.err THEN Returned(Failure("FileExistsError"), fs, {})
             ELSE IF ~IsStr(content) THEN Raised("TypeError", made, mkdirs)
             ELSE IF resolved \in made.dirs
                  THEN Returned(Failure("IsADirectoryError"), made, mkdirs)
             ELSE Returned([ok |-> TRUE, path |-> resolved, bytes |-> Len(content.v)],
                           Fs(made.dirs, Put(fs.files, resolved, write_text(content.v)),
                              fs.links),
                           mkdirs \cup {Effect("write", resolved)})

\* Path.relative_to(workspace): the segments of p below ws.
RelativeTo(p, ws) == SubSeq(p, Len(ws) + 1, Len(p))

\* tools.py list_files: the regular files below the path, LIST_CAP of them
\* at most, relative to the workspace as it was given.
list_files(ws, path, fs) ==
    IF ~IsStr(path) THEN Raised("TypeError", fs, {})
    ELSE LET r == resolve_in_workspace(ws, path.v, fs.links)
             resolved == r.path
             found == {p \in DOMAIN fs.files : resolved \in Parents(p)}
             listed == IF Cardinality(found) <= LIST_CAP THEN found
                       ELSE CHOOSE s \in SUBSET found : Cardinality(s) = LIST_CAP
         IN  IF r.raised THEN Returned(Failure(r.error), fs, {})
             ELSE IF ~Exists(fs, resolved)
                  THEN Returned(Failure("Path does not exist"), fs, {})
             ELSE IF \E p \in listed : ~Within(ws, p)
                  THEN Returned(Failure("ValueError"), fs, {Effect("list", resolved)})
             ELSE Returned([ok |-> TRUE, files |-> {RelativeTo(p, ws) : p \in listed}],
                           fs, {Effect("list", resolved)})

\* str.strip() of a text given as a sequence of one-character strings.
IsSpace(c) == c \in {" ", "\t", "\n", "\r"}
RECURSIVE LStrip(_)
LStrip(s) == IF s # <<>> /\ IsSpace(Head(s)) THEN LStrip(Tail(s)) ELSE s
RECURSIVE RStrip(_)
RStrip(s) == IF s # <<>> /\ IsSpace(s[Len(s)]) THEN RStrip(SubSeq(s, 1, Len(s) - 1)) ELSE s
\* A mutant of Strip: the whitespace at the end stays.
Strip_Left(s) == LStrip(s)
Strip(s) == RStrip(LStrip(s))

\* A character that UTF-8 does not encode: half of a surrogate pair, which
\* json.loads makes of the escape \ud800 standing alone.
LoneSurrogate == "\\ud800"

\* urllib.parse.quote_plus(query) encodes the query as UTF-8 (tools.py
\* line 101, before the first try).
Encodable(text) == \A i \in 1..Len(text) : text[i] # LoneSurrogate

\* What the two sources answer to a lookup.  Wikipedia: "extract" (a title
\* found and its summary with an extract that is not blank), "none" (no
\* hit, no title or no extract) or "error" (a request or json.loads
\* raises).  DuckDuckGo: "abstract" (AbstractText not blank), "related"
\* (only RelatedTopics, texts their Text members), "none" or "error".
WebSource(kind, text, texts) == [kind |-> kind, text |-> text, texts |-> texts]
SUMMARY_CAP == 1200
MAX_SNIPPETS == 3
LongText == [i \in 1..(SUMMARY_CAP + 1) |-> "x"]
WebAnswers(web) ==
    CASE web = "wikipedia" ->
            [wiki |-> WebSource("extract", <<"s">>, <<>>),
             ddg |-> WebSource("abstract", <<"d">>, <<>>)]
      [] web = "duckduckgo" ->
            [wiki |-> WebSource("none", <<>>, <<>>),
             ddg |-> WebSource("related", <<>>, <<<<" ">>>>)]
      [] web = "fallback" ->
            [wiki |-> WebSource("error", <<>>, <<>>),
             ddg |-> WebSource("abstract", LongText, <<>>)]
      [] web = "nomatch" ->
            [wiki |-> WebSource("none", <<>>, <<>>),
             ddg |-> WebSource("none", <<>>, <<>>)]
      [] OTHER ->
            [wiki |-> WebSource("error", <<>>, <<>>),
             ddg |-> WebSource("error", <<>>, <<>>)]

\* s[:n]
FirstN(s, n) == IF Len(s) <= n THEN s ELSE SubSeq(s, 1, n)

\* " | ".join(snippets)
RECURSIVE JoinBar(_)
JoinBar(texts) ==
    IF texts = <<>> THEN <<>>
    ELSE IF Len(texts) = 1 THEN texts[1]
    ELSE texts[1] \o <<" ", "|", " ">> \o JoinBar(Tail(texts))

\* A mutant of Summary: the text is returned whole.
Summary_Whole(text) == text

\* extract[:1200], abstract[:1200], " | ".join(snippets)[:1200] (tools.py
\* lines 136, 153 and 168)
Summary(text) == FirstN(text, SUMMARY_CAP)

Found(source, text) == [ok |-> TRUE, source |-> source, summary |-> Summary(text)]
AskedWikipedia == Effect("http", <<"wikipedia">>)
AskedDuckDuckGo == Effect("http", <<"duckduckgo">>)

\* tools.py web_lookup.  env.web names what the two sources answer.  Of
\* the result the title and the url are left out.
web_lookup(query, fs, env) ==
    LET wiki == WebAnswers(env.web).wiki
        ddg == WebAnswers(env.web).ddg
        both == {AskedWikipedia, AskedDuckDuckGo}
    IN  IF ~IsStr(query) THEN Raised("AttributeError", fs, {})
        ELSE IF Strip(query.v) = <<>> THEN Returned(Failure("Query is empty"), fs, {})
        ELSE IF ~Encodable(Strip(query.v)) THEN Raised("UnicodeEncodeError", fs, {})
        ELSE IF wiki.kind = "extract"
             THEN Returned(Found("wikipedia", wiki.text), fs, {AskedWikipedia})
        ELSE CASE ddg.kind = "abstract" ->
                    Returned(Found("duckduckgo", ddg.text), fs, both)
               [] ddg.kind = "related" /\ ddg.texts # <<>> ->
                    Returned(Found("duckduckgo",
                                   JoinBar(FirstN(ddg.texts, MAX_SNIPPETS))), fs, both)
               [] ddg.kind = "error" ->
                    Returned(Failure("Web lookup failed"), fs, both)
               [] OTHER ->
                    Returned(Failure("No web summary found"), fs, both)

----------------------------------------------------------------------------
(* Shell commands.  A command string is text, the sequence of its          *)
(* whitespace characters and its whitespace-free tokens, together with     *)
(* writes, the paths PowerShell writes when it runs that text: what a      *)
(* command does is the shell's part, given with the command.               *)

ALLOWED_COMMAND_PREFIXES ==
    {"python", "py", "git", "rg", "Get-ChildItem", "dir", "type", "echo", "Get-Content"}

Command(text, writes) == [text |-> text, writes |-> writes]
EmptyCommand == Command(<<>>, {})
ShellBytes == <<"s">>
\* What a process of the model prints.
ProcessOutput == <<"o">>

\* command.strip().split(maxsplit=1)[0] if command.strip() else ""
FirstToken(text) == IF Strip(text) = <<>> THEN "" ELSE Head(Strip(text))

\* The filesystem after PowerShell ran the command in cwd: each path it
\* writes is opened below cwd (or as given, when absolute) and written
\* where its directory exists.
ShellTarget(cwd, w, lnk) ==
    IF w.abs THEN Resolve(w.segs, lnk) ELSE Resolve(cwd \o w.segs, lnk)
ShellWritten(command, cwd, fs) ==
    {p \in {ShellTarget(cwd, w, fs.links) : w \in command.writes} :
        Parent(p) \in fs.dirs /\ p \notin fs.dirs}
AfterShell(command, cwd, fs) ==
    LET written == ShellWritten(command, cwd, fs)
    IN  Fs(fs.dirs,
           [p \in (DOMAIN fs.files) \cup written |->
               IF p \in written THEN ShellBytes ELSE fs.files[p]],
           fs.links)

\* A mutant of ExitOk: every exit code that is no signal counts as success.
ExitOk_NotNegative(returncode) == returncode >= 0

\* completed.returncode == 0 (tools.py line 51)
ExitOk(returncode) == returncode = 0

\* tools.py run_shell.  env.rc is the exit code of the process and
\* env.timeout whether it outlives timeout_seconds; subprocess.run raises
\* FileNotFoundError or NotADirectoryError when cwd is no directory.
run_shell(command, cwd, fs, env) ==
    IF ~IsStr(command) THEN Raised("AttributeError", fs, {})
    ELSE LET first == FirstToken(command.v.text)
             spawned == {Effect("spawn", cwd)}
                          \cup {Effect("write", p) : p \in ShellWritten(command.v, cwd, fs)}
         IN  IF first # "" /\ first \notin ALLOWED_COMMAND_PREFIXES
             THEN Returned([ok |-> FALSE, error |-> "blocked by allowlist",
                            allowed_prefixes |-> ALLOWED_COMMAND_PREFIXES], fs, {})
             ELSE IF cwd \notin fs.dirs THEN Raised("FileNotFoundError", fs, {})
             ELSE IF env.timeout
                  THEN Returned(Failure("Command timed out"),
                                AfterShell(command.v, cwd, fs), spawned)
             ELSE Returned([ok |-> ExitOk(env.rc), returncode |-> env.rc,
                            stdout |-> LastN(ProcessOutput, OUTPUT_CAP),
                            stderr |-> LastN(<<>>, OUTPUT_CAP)],
                           AfterShell(command.v, cwd, fs), spawned)

\* What execute_tool hands back: the serialized result, or the exception.
Serialized(outcome) ==
    [raised |-> outcome.raised, exc |-> outcome.exc, text |-> json_dumps(outcome.result),
     fs |-> outcome.fs, effects |-> outcome.effects]

DotPath == StrV(RelPath(<<".">>))
EmptyPath == StrV(RelPath(<<>>))
EmptyText == StrV(<<>>)

\* tools.py execute_tool
execute_tool(name, arguments, ws, fs, env) ==
    LET parsed == json_loads(arguments)
        args == parsed.d
        isDict == parsed.py = "dict"
        cwd == IF "cwd" \in DOMAIN args /\ IsStr(args["cwd"]) THEN args["cwd"] ELSE DotPath
        resolved_cwd == resolve_in_workspace(ws, cwd.v, fs.links)
    IN  IF parsed.err
        THEN Serialized(Returned(Failure("Invalid JSON args"), fs, {}))
        ELSE CASE name = "run_shell" ->
                    IF ~isDict THEN Serialized(Raised("AttributeError", fs, {}))
                    ELSE IF resolved_cwd.raised
                         THEN Serialized(Returned(Failure(resolved_cwd.error), fs, {}))
                    ELSE Serialized(run_shell(Get(args, "command", StrV(EmptyCommand)),
                                              resolved_cwd.path, fs, env))
               [] name = "read_file" ->
                    IF ~isDict THEN Serialized(Raised("AttributeError", fs, {}))
                    ELSE Serialized(read_file(ws, Get(args, "path", EmptyPath), fs))
               [] name = "write_file" ->
                    IF ~isDict THEN Serialized(Raised("AttributeError", fs, {}))
                    ELSE Serialized(write_file(ws, Get(args, "path", EmptyPath),
                                               Get(args, "content", EmptyText), fs))
               [] name = "list_files" ->
                    IF ~isDict THEN Serialized(Raised("AttributeError", fs, {}))
                    ELSE Serialized(list_files(ws, Get(args, "path", DotPath), fs))
               [] name = "web_lookup" ->
                    IF ~isDict THEN Serialized(Raised("AttributeError", fs, {}))
                    ELSE Serialized(web_lookup(Get(args, "query", EmptyText), fs, env))
               [] OTHER ->
                    Serialized(Returned(Failure("Unknown tool"), fs, {}))

----------------------------------------------------------------------------
(* Texts (user input, provider text) are sequences of one-character        *)
(* strings.                                                                *)

UpperCase == <<"A", "B", "C", "D", "E", "F", "G", "H", "I", "J", "K", "L", "M", "N", "O", "P", "Q", "R", "S", "T", "U", "V", "W", "X", "Y", "Z">>
LowerCase == <<"a", "b", "c", "d", "e", "f", "g", "h", "i", "j", "k", "l", "m", "n", "o", "p", "q", "r", "s", "t", "u", "v", "w", "x", "y", "z">>
Digits == {"0", "1", "2", "3", "4", "5", "6", "7", "8", "9"}

\* str.lower() on ASCII text
LowerChar(c) ==
    IF \E i \in 1..26 : UpperCase[i] = c
    THEN LowerCase[CHOOSE i \in 1..26 : UpperCase[i] = c]
    ELSE c
Lower(s) == [i \in 1..Len(s) |-> LowerChar(s[i])]

IsLetter(c) == \E i \in 1..26 : UpperCase[i] = c \/ LowerCase[i] = c

\* str.split(): the maximal runs of characters that are not whitespace.
RECURSIVE SplitFrom(_, _, _)
SplitFrom(s, word, acc) ==
    IF s = <<>> THEN (IF word = <<>> THEN acc ELSE Append(acc, word))
    ELSE IF IsSpace(Head(s))
         THEN SplitFrom(Tail(s), <<>>, IF word = <<>> THEN acc ELSE Append(acc, word))
    ELSE SplitFrom(Tail(s), Append(word, Head(s)), acc)
Split(s) == SplitFrom(s, <<>>, <<>>)

\* agent.py GREETING_WORDS
GREETING_WORDS ==
    {<<"h", "i">>,
     <<"h", "e", "l", "l", "o">>,
     <<"h", "e", "y">>,
     <<"y", "o">>,
     <<"s", "u", "p">>,
     <<"h", "o", "l", "a">>,
     <<"h", "o", "i">>,
     <<"h", "a", "l", "l", "o">>,
     <<"h", "e", "y", "o">>,
     <<"g", "o", "e", "d", "e", "m", "o", "r", "g", "e", "n">>,
     <<"g", "o", "e", "d", "e", "m", "i", "d", "d", "a", "g">>,
     <<"g", "o", "e", "d", "e", "n", "a", "v", "o", "n", "d">>}

\* The greeting words that select the Dutch reply (agent.py line 49).
DUTCH_GREETINGS ==
    {<<"h", "o", "i">>,
     <<"h", "a", "l", "l", "o">>,
     <<"g", "o", "e", "d", "e", "m", "o", "r", "g", "e", "n">>,
     <<"g", "o", "e", "d", "e", "m", "i", "d", "d", "a", "g">>,
     <<"g", "o", "e", "d", "e", "n", "a", "v", "o", "n", "d">>}

ReplyDutch == "Hoi! Ik ben er. Zeg maar wat je wilt doen, dan help ik je direct."
ReplyEnglish == "Hey! I'm here. Tell me what you want to build or fix."
None == "None"

\* re.sub(r"[^a-zA-Z0-9\\s]", " ", text): in the raw string the class is
\* letters, digits, the backslash and the letter s, so every other
\* character, whitespace included, becomes a space; a backslash stays.
SmalltalkKept(c) == IsLetter(c) \/ c \in Digits \/ c = "\\"
SmalltalkClean(s) == [i \in 1..Len(s) |-> IF SmalltalkKept(s[i]) THEN s[i] ELSE " "]

\* The words maybe_handle_smalltalk classifies.
SmalltalkWords(user_input) == Split(Strip(SmalltalkClean(Lower(user_input))))

\* A mutant of maybe_handle_smalltalk: the fast path takes two words at most.
maybe_handle_smalltalk_TwoWords(user_input) ==
    LET words == SmalltalkWords(user_input)
    IN  IF words = <<>> THEN None
        ELSE IF Len(words) <= 2 /\ \A i \in 1..Len(words) : words[i] \in GREETING_WORDS
             THEN IF \E i \in 1..Len(words) : words[i] \in DUTCH_GREETINGS
                  THEN ReplyDutch ELSE ReplyEnglish
        ELSE None

\* agent.py maybe_handle_smalltalk: the canned reply, or None.
maybe_handle_smalltalk(user_input) ==
    LET words == SmalltalkWords(user_input)
    IN  IF words = <<>> THEN None
        ELSE IF Len(words) <= 3 /\ \A i \in 1..Len(words) : words[i] \in GREETING_WORDS
             THEN IF \E i \in 1..Len(words) : words[i] \in DUTCH_GREETINGS
                  THEN ReplyDutch ELSE ReplyEnglish
        ELSE None


----------------------------------------------------------------------------
(* The lookup query of a user input (agent.py _extract_lookup_query).      *)

StartsWith(s, pre) == Len(s) >= Len(pre) /\ SubSeq(s, 1, Len(pre)) = pre
Drop(s, n) == SubSeq(s, n + 1, Len(s))
LeadingSpaces(s) == Cardinality({k \in 1..Len(s) : \A i \in 1..k : IsSpace(s[i])})

\* The end of a pattern: \??$ (the $ also matches before a last newline).
TailQuestion(x) == x \in {<<>>, <<"?">>, <<"\n">>, <<"?", "\n">>}
\* The end of the second pattern: \s+mean\??$
TailMean(x) ==
    \E k \in 1..Len(x) :
        /\ \A i \in 1..k : IsSpace(x[i])
        /\ StartsWith(Drop(x, k), <<"m", "e", "a", "n">>)
        /\ TailQuestion(Drop(x, k + 4))

\* The end of a pattern, by its kind.
TailOk(tail, x) == IF tail = "mean" THEN TailMean(x) ELSE TailQuestion(x)

\* re.match of ^<pre>\s+(.+?)<tail> on s: \s+ takes as much whitespace as
\* it can, the lazy group as little; "." matches no newline.  The result
\* is group 1.
PatternMatch(s, pre, tail) ==
    LET rest == Drop(s, Len(pre))
        cands == {c \in (1..LeadingSpaces(rest)) \X (1..Len(rest)) :
                     /\ c[1] + c[2] <= Len(rest)
                     /\ \A i \in (c[1] + 1)..(c[1] + c[2]) : rest[i] # "\n"
                     /\ TailOk(tail, Drop(rest, c[1] + c[2]))}
        best == CHOOSE c \in cands :
                    \A d \in cands : c[1] > d[1] \/ (c[1] = d[1] /\ c[2] <= d[2])
    IN  IF ~StartsWith(s, pre) \/ cands = {} THEN [matched |-> FALSE, group |-> <<>>]
        ELSE [matched |-> TRUE, group |-> SubSeq(rest, best[1] + 1, best[1] + best[2])]

\* str.strip(chars)
RECURSIVE LStripSet(_, _)
LStripSet(s, chars) ==
    IF s # <<>> /\ Head(s) \in chars THEN LStripSet(Tail(s), chars) ELSE s
RECURSIVE RStripSet(_, _)
RStripSet(s, chars) ==
    IF s # <<>> /\ s[Len(s)] \in chars THEN RStripSet(SubSeq(s, 1, Len(s) - 1), chars) ELSE s
StripSet(s, chars) == RStripSet(LStripSet(s, chars), chars)

QueryTrim == {" ", ".", ",", "!", "?", ":", ";", "\"", "'"}

\* " ".join(words)
RECURSIVE Join(_)
Join(words) ==
    IF words = <<>> THEN <<>>
    ELSE IF Len(words) = 1 THEN words[1]
    ELSE words[1] \o <<" ">> \o Join(Tail(words))

\* re.sub(r"[^a-zA-Z0-9\s\-_/]", " ", text)
LookupKept(c) == IsLetter(c) \/ c \in Digits \/ IsSpace(c) \/ c \in {"-", "_", "/"}
LookupClean(s) == [i \in 1..Len(s) |-> IF LookupKept(s[i]) THEN s[i] ELSE " "]

MAX_LOOKUP_WORDS == 12
PatWatBetekent == <<"w", "a", "t", " ", "b", "e", "t", "e", "k", "e", "n", "t">>
PatWhatDoes == <<"w", "h", "a", "t", " ", "d", "o", "e", "s">>
PatWhatIs == <<"w", "h", "a", "t", " ", "i", "s">>
PatMeaningOf == <<"m", "e", "a", "n", "i", "n", "g", " ", "o", "f">>

\* agent.py _extract_lookup_query: the query text, or None.
extract_lookup_query(user_input) ==
    LET text == Strip(user_input)
        lowered == Lower(text)
        m1 == PatternMatch(lowered, PatWatBetekent, "question")
        m2 == PatternMatch(lowered, PatWhatDoes, "mean")
        m3 == PatternMatch(lowered, PatWhatIs, "question")
        m4 == PatternMatch(lowered, PatMeaningOf, "question")
        words == Split(Strip(LookupClean(text)))
    IN  IF text = <<>> THEN [none |-> TRUE, query |-> <<>>]
        ELSE IF m1.matched THEN [none |-> FALSE, query |-> StripSet(m1.group, QueryTrim)]
        ELSE IF m2.matched THEN [none |-> FALSE, query |-> StripSet(m2.group, QueryTrim)]
        ELSE IF m3.matched THEN [none |-> FALSE, query |-> StripSet(m3.group, QueryTrim)]
        ELSE IF m4.matched THEN [none |-> FALSE, query |-> StripSet(m4.group, QueryTrim)]
        ELSE IF words = <<>> THEN [none |-> TRUE, query |-> <<>>]
        ELSE IF Len(words) >= 1 /\ Len(words) <= MAX_LOOKUP_WORDS
                /\ ~(\A i \in 1..Len(words) : Lower(words[i]) \in GREETING_WORDS)
             THEN [none |-> FALSE, query |-> Join(words)]
        ELSE [none |-> TRUE, query |-> <<>>]

\* agent.py _maybe_prefetch_web_context: whether web_lookup was called and
\* the system message that results: "none", the failure "note" or the
\* context "block".  lookup is how the call of web_lookup ended: "none" (no
\* call), "raised", "failed" (ok false), "empty" (a blank summary) or
\* "found".
Prefetch(lookups, lookup, context) ==
    [lookups |-> lookups, lookup |-> lookup, context |-> context]
maybe_prefetch_web_context(user_input, fs, env) ==
    LET q == extract_lookup_query(user_input)
        result == web_lookup(StrV(q.query), fs, env)
    IN  IF q.none \/ q.query = <<>> THEN Prefetch(0, "none", "none")
        ELSE IF result.raised THEN Prefetch(1, "raised", "none")
        ELSE IF ~result.result.ok THEN Prefetch(1, "failed", "note")
        ELSE IF Strip(result.result.summary) = <<>> THEN Prefetch(1, "empty", "none")
        ELSE Prefetch(1, "found", "block")


----------------------------------------------------------------------------
(* The filesystem a session starts on and what the environment may answer. *)

ReadmePath == <<"ws", "readme">>
SecretPath == <<"out", "secret">>
InitDirs == {Root, Ws, <<"out">>}
InitFiles == [p \in {ReadmePath, SecretPath} |-> IF p = ReadmePath THEN <<"a">> ELSE <<"s">>]
NoLinks == [p \in {} |-> <<>>]
\* ws/lnk is a symbolic link to /out.
LinkOut == [p \in {<<"ws", "lnk">>} |-> <<"out">>]

\* One answer of the environment to a tool: the exit code and the timeout
\* of a process, and what the web sources answer (WebAnswers).
Envs ==
    {[rc |-> 0, timeout |-> FALSE, web |-> "wikipedia"],
     [rc |-> 1, timeout |-> FALSE, web |-> "nomatch"],
     [rc |-> 0, timeout |-> TRUE, web |-> "neterror"],
     [rc |-> 0, timeout |-> FALSE, web |-> "duckduckgo"],
     [rc |-> 0, timeout |-> FALSE, web |-> "fallback"]}

SubY == RelPath(<<"sub", "y">>)
UpX == RelPath(<<"..", "x">>)
LnkY == RelPath(<<"lnk", "y">>)
Readme == RelPath(<<"readme">>)
NoDir == RelPath(<<"nodir">>)
AbsOutF == AbsPath(<<"out", "f">>)

EchoHi == Command(<<"echo", " ", "hi">>, {})
GitStatus == Command(<<" ", "git", " ", "status">>, {})
EchoRedirect == Command(<<"echo", " ", "x", " ", ">", " ", "/out/f">>, {AbsOutF})
RmRf == Command(<<"rm", " ", "-rf", " ", "/">>, {AbsPath(<<"out", "secret">>)})
UpperEcho == Command(<<"Echo", " ", "x">>, {RelPath(<<"gen">>)})
BlankCommand == Command(<<" ", "\t">>, {})

Member(k, val) == [x \in {k} |-> val]
Members2(k1, v1, k2, v2) == [x \in {k1, k2} |-> IF x = k1 THEN v1 ELSE v2]

TOOL_NAMES == {"run_shell", "read_file", "write_file", "list_files", "web_lookup"}
\* The names a provider may send: the five tools and one that is none.
CallNames == TOOL_NAMES \cup {"delete_file"}

\* The arguments strings a provider may send.
PathArguments ==
    {JsObject(Member("path", StrV(p))) : p \in {SubY, UpX, LnkY, Readme, AbsOutF}}
    \cup {JsObject(Member("path", IntV(5)))}
WriteArguments ==
    {JsObject(Members2("path", StrV(p), "content", StrV(<<"a", "\n">>))) :
        p \in {SubY, UpX, LnkY, AbsOutF, RelPath(<<"readme", "z">>)}}
    \cup {JsObject(Members2("path", StrV(SubY), "content", StrV(<<"a", "\r", "\n", "b">>)))}
    \cup {JsObject(Members2("path", StrV(SubY), "content", IntV(5)))}
ShellArguments ==
    {JsObject(Member("command", StrV(c))) :
        c \in {EchoHi, GitStatus, EchoRedirect, RmRf, UpperEcho, BlankCommand, EmptyCommand}}
    \cup {JsObject(Members2("command", StrV(EchoHi), "cwd", p)) :
              p \in {StrV(UpX), StrV(LnkY), StrV(NoDir), IntV(5)}}
    \cup {JsObject(Member("command", IntV(5)))}
QueryArguments ==
    {JsObject(Member("query", StrV(<<"t", "l", "a">>))), JsObject(Member("query", StrV(<<" ">>))),
     JsObject(Member("query", StrV(<<"t", LoneSurrogate>>))),
     JsObject(Member("query", IntV(5)))}
OtherArguments == {JsInvalid, JsEmpty, JsArray, JsNumber, JsNull}

\* The calls a provider may send: every name with the arguments of its
\* tool and with the arguments that are no object of members.
ToolCall(name, arguments) == [name |-> name, arguments |-> arguments]
ToolCalls ==
    {ToolCall(n, a) : n \in {"read_file", "list_files"}, a \in PathArguments}
    \cup {ToolCall("write_file", a) : a \in WriteArguments}
    \cup {ToolCall("run_shell", a) : a \in ShellArguments}
    \cup {ToolCall("web_lookup", a) : a \in QueryArguments}
    \cup {ToolCall(n, a) : n \in CallNames, a \in OtherArguments}

\* The path argument a call confines: cwd of run_shell, path of the file tools.
PathArgument(name, arguments) ==
    LET d == json_loads(arguments).d
        key == IF name = "run_shell" THEN "cwd" ELSE "path"
    IN  IF name \in {"run_shell", "read_file", "write_file", "list_files"}
           /\ key \in DOMAIN d /\ IsStr(d[key])
        THEN [given |-> TRUE, path |-> d[key].v]
        ELSE [given |-> FALSE, path |-> RelPath(<<>>)]

\* Where a user path leads, and whether that is outside the workspace.
Target(ws, user_path, lnk) ==
    IF user_path.abs THEN Resolve(user_path.segs, lnk) ELSE Resolve(ws \o user_path.segs, lnk)
LeadsOutside(ws, user_path, lnk) == ~Within(Resolve(ws, lnk), Target(ws, user_path, lnk))


----------------------------------------------------------------------------
(* The transcript store (memory.py).  The file is given by what json.loads *)
(* makes of its bytes: "absent" (no file), "array" (a JSON array, items    *)
(* its elements), "text" (no JSON), "object" and "string" (JSON that is no *)
(* array; items the characters of the string), "bytes" (no UTF-8).         *)
(* json.dumps(items, indent=2) of a list of entries written and read back  *)
(* is that list: the strings are escaped to ASCII, and the line ends that  *)
(* write_text and read_text translate lie between the tokens.              *)

MemContent(kind, items) == [kind |-> kind, items |-> items]
NoMemFile == MemContent("absent", <<>>)
RECENT_COUNT == 8

\* An entry of the transcript; ts is the time of the clock at the append.
Entry(ts, role, content) == [ts |-> ts, role |-> role, content |-> content]

\* What a method of the store did: the exception that left it, or the
\* Python value it returned, py its type and items its elements.
MemRaised(exc) == [raised |-> TRUE, exc |-> exc, py |-> "", items |-> <<>>]
MemValue(py, items) == [raised |-> FALSE, exc |-> "", py |-> py, items |-> items]

\* MemoryStore._read_all: only json.JSONDecodeError is caught.
read_all(file) ==
    CASE file.kind = "absent" -> MemValue("list", <<>>)
      [] file.kind = "text" -> MemValue("list", <<>>)
      [] file.kind = "bytes" -> MemRaised("UnicodeDecodeError")
      [] file.kind = "object" -> MemValue("dict", <<>>)
      [] file.kind = "string" -> MemValue("str", file.items)
      [] OTHER -> MemValue("list", file.items)

\* MemoryStore._write_all
write_all(items) == MemContent("array", items)

\* A mutant of recent: the first count items instead of the last.
recent_First(file, count) ==
    LET r == read_all(file)
    IN  IF r.raised THEN r
        ELSE IF r.py = "dict" THEN MemRaised("TypeError")
        ELSE MemValue(r.py, SubSeq(r.items, 1, IF Len(r.items) <= count
                                               THEN Len(r.items) ELSE count))

\* MemoryStore.recent: items[-count:], which a dict does not take.
recent(file, count) ==
    LET r == read_all(file)
    IN  IF r.raised THEN r
        ELSE IF r.py = "dict" THEN MemRaised("TypeError")
        ELSE MemValue(r.py, LastN(r.items, count))

\* A mutant of appended: the new entry is put before the others.
appended_Front(items, entry) == <<entry>> \o items

\* A mutant of appended: the list written holds the new entry only.
appended_OnlyNew(items, entry) == <<entry>>

\* items.append(entry) of MemoryStore.append (memory.py lines 27-33).
appended(items, entry) == Append(items, entry)

\* MemoryStore.append run without interruption: the file after it, or the
\* exception; only a list has append.
append(file, entry) ==
    LET r == read_all(file)
    IN  IF r.raised THEN [raised |-> TRUE, exc |-> r.exc, file |-> file]
        ELSE IF r.py # "list"
             THEN [raised |-> TRUE, exc |-> "AttributeError", file |-> file]
        ELSE [raised |-> FALSE, exc |-> "", file |-> write_all(appended(r.items, entry))]

----------------------------------------------------------------------------
(* The mode selection (agent.py _choose_api_mode).  A base URL is None or  *)
(* a text.                                                                 *)

NoUrl == [given |-> FALSE, text |-> <<>>]
Url(text) == [given |-> TRUE, text |-> text]

\* sub in s
Contains(s, sub) ==
    \E i \in 0..(Len(s) - Len(sub)) : SubSeq(s, i + 1, i + Len(sub)) = sub

Localhost == <<"l", "o", "c", "a", "l", "h", "o", "s", "t">>
Loopback4 == <<"1", "2", "7", ".", "0", ".", "0", ".", "1">>

\* agent.py _choose_api_mode
choose_api_mode(mode_arg, base_url) ==
    IF mode_arg \in {"responses", "chat"} THEN mode_arg
    ELSE IF ~base_url.given \/ base_url.text = <<>> THEN "responses"
    ELSE IF Contains(Lower(base_url.text), Localhost)
               \/ Contains(Lower(base_url.text), Loopback4)
         THEN "chat"
    ELSE "responses"

\* The values of --api-mode and of the mode menu.
ModeArgs == {"auto", "responses", "chat"}
\* The base URLs of the model.
BaseUrls ==
    {NoUrl,
     Url(<<>>),
     Url(<<"h", "t", "t", "p", ":", "/", "/", "l", "o", "c", "a", "l", "h", "o", "s", "t", ":", "1", "2", "3", "4", "/", "v", "1">>),
     Url(<<"h", "t", "t", "p", ":", "/", "/", "1", "2", "7", ".", "0", ".", "0", ".", "1", ":", "1", "2", "3", "4", "/", "v", "1">>),
     Url(<<"H", "T", "T", "P", ":", "/", "/", "L", "O", "C", "A", "L", "H", "O", "S", "T", ":", "1", "2", "3", "4", "/", "v", "1">>),
     Url(<<"h", "t", "t", "p", ":", "/", "/", "L", "o", "c", "a", "l", "h", "o", "s", "t", ":", "8", "0", "0", "0">>),
     Url(<<"h", "t", "t", "p", ":", "/", "/", "l", "o", "c", "a", "l", "h", "o", "s", "t">>),
     Url(<<"h", "t", "t", "p", ":", "/", "/", "1", "2", "7", ".", "0", ".", "0", ".", "1">>),
     Url(<<"h", "t", "t", "p", "s", ":", "/", "/", "a", "p", "i", ".", "o", "p", "e", "n", "a", "i", ".", "c", "o", "m", "/", "v", "1">>),
     Url(<<"h", "t", "t", "p", "s", ":", "/", "/", "o", "p", "e", "n", "r", "o", "u", "t", "e", "r", ".", "a", "i", "/", "a", "p", "i", "/", "v", "1">>),
     Url(<<"h", "t", "t", "p", ":", "/", "/", "1", "0", ".", "0", ".", "0", ".", "5", ":", "1", "2", "3", "4", "/", "v", "1">>),
     Url(<<"h", "t", "t", "p", ":", "/", "/", "1", "9", "2", ".", "1", "6", "8", ".", "1", ".", "2", ":", "1", "2", "3", "4", "/", "v", "1">>),
     Url(<<"h", "t", "t", "p", ":", "/", "/", "[", ":", ":", "1", "]", ":", "1", "2", "3", "4", "/", "v", "1">>),
     Url(<<"h", "t", "t", "p", ":", "/", "/", "1", "2", "7", ".", "0", ".", "0", ".", "2", ":", "8", "0", "8", "0">>),
     Url(<<"h", "t", "t", "p", "s", ":", "/", "/", "e", "x", "a", "m", "p", "l", "e", ".", "c", "o", "m", "/", "l", "o", "c", "a", "l", "h", "o", "s", "t">>),
     Url(<<"h", "t", "t", "p", ":", "/", "/", "m", "y", "l", "o", "c", "a", "l", "h", "o", "s", "t", ".", "i", "o", "/", "v", "1">>),
     Url(<<"h", "t", "t", "p", "s", ":", "/", "/", "l", "o", "c", "a", "l", "h", "o", "s", "t", ".", "e", "x", "a", "m", "p", "l", "e", ".", "c", "o", "m">>),
     Url(<<"h", "t", "t", "p", ":", "/", "/", "e", "x", "a", "m", "p", "l", "e", ".", "c", "o", "m", "/", "?", "u", "=", "1", "2", "7", ".", "0", ".", "0", ".", "1">>),
     Url(<<"h", "t", "t", "p", ":", "/", "/", "1", "2", "7", ".", "0", ".", "0", ".", "1", ".", "n", "i", "p", ".", "i", "o", "/", "v", "1">>),
     Url(<<"h", "t", "t", "p", ":", "/", "/", "0", ".", "0", ".", "0", ".", "0", ":", "1", "2", "3", "4", "/", "v", "1">>)}

----------------------------------------------------------------------------
(* The turn engine (agent.py run_turn_responses, run_turn_chat).           *)

\* The provider calls of one turn are counted up to CountCap; a turn that
\* goes on counts no further.
CountCap == 13
\* The tool calls of one provider response.
MaxCalls == 2
\* agent.py run_turn_chat: for _ in range(12)
MAX_ITERATIONS == 12

Inc(n) == IF n < CountCap THEN n + 1 ELSE n

StoppedMessage == "Stopped after too many tool iterations."
NoAnswer == [kind |-> "none", reply |-> "", text |-> <<>>]
Canned(reply) == [kind |-> "canned", reply |-> reply, text |-> <<>>]
FinalText(text) == [kind |-> "text", reply |-> "", text |-> text]
Stopped == [kind |-> "stopped", reply |-> StoppedMessage, text |-> <<>>]

\* A request to the provider: the first of a turn, with the assembled input
\* and its web context, or a follow-up with tool outputs (in the chat
\* variant on top of all earlier messages).
NoRequest == [kind |-> "none", previous_response_id |-> 0, context |-> "none", outputs |-> <<>>]

IdleTurn ==
    [phase |-> "IDLE",       \* IDLE, AWAIT_MODEL, EXECUTE_TOOLS, DONE, STOPPED, RAISED
     user_input |-> <<>>,
     answer |-> NoAnswer,    \* what the turn returned
     context |-> "none",     \* the web context of the first request
     request |-> NoRequest,  \* the request in flight
     response_id |-> 0,      \* the id of the last response
     response_text |-> <<>>, \* the text of the last response
     calls |-> <<>>,         \* the tool calls of the last response
     idx |-> 1,              \* the call the for loop is at
     outputs |-> <<>>,       \* the outputs collected in this round
     nReq |-> 0,             \* provider requests of this turn
     nToolResponses |-> 0,   \* responses of this turn that carried tool calls
     nFollowups |-> 0,       \* requests of this turn that carried tool outputs
     executed |-> FALSE,     \* whether this turn has called execute_tool
     nRounds |-> 0,          \* rounds of this turn whose calls were all executed
     nMemReads |-> 0,        \* memory.recent calls of this turn
     nLookups |-> 0,         \* web_lookup calls of the prefetch of this turn
     lookup |-> "none"]      \* how the web_lookup of the prefetch ended

\* The user inputs of the model.
TurnInputs ==
    {<<"h", "i">>, <<"H", "o", "i", "!">>, <<"h", "i", " ", " ", "H", "E", "Y", " ", "y", "o">>, <<"h", "i", " ", "h", "i", " ", "h", "i", " ", "h", "i">>, <<"f", "i", "x", " ", "i", "t">>, <<"w", "h", "a", "t", " ", "i", "s", " ", "t", "l", "a", "?">>,
     <<"w", "h", "a", "t", " ", "i", "s", " ", LoneSurrogate, "?">>}

\* The tool calls a response of the model may carry.
TurnCalls ==
    {ToolCall("read_file", JsObject(Member("path", StrV(Readme)))),
     ToolCall("write_file",
              JsObject(Members2("path", StrV(SubY), "content", StrV(<<"a">>)))),
     ToolCall("read_file", JsInvalid),
     ToolCall("read_file", JsArray)}
CallLists == UNION {[1..k -> TurnCalls] : k \in 1..MaxCalls}

\* The texts a response of the model may carry.
ResponseTexts == {<<"o", "k">>, <<" ", "d", "o", "n", "e", "\n">>}

\* The provider gives every call of a response an identifier of its own.
CallId(response_id, i) == response_id * 10 + i
WithIds(response_id, callList) ==
    [i \in 1..Len(callList) |->
        [id |-> CallId(response_id, i), name |-> callList[i].name,
         arguments |-> callList[i].arguments]]

\* The start of run_turn_responses and run_turn_chat (agent.py lines
\* 134-155 and 182-207): the smalltalk return, or memory.recent, the web
\* prefetch and the first request.  The history lines are built with
\* item['role'], which the characters of a string do not take.
StartTurn(user_input, env) ==
    /\ turn.phase \in {"IDLE", "DONE", "STOPPED"}
    /\ LET smalltalk == maybe_handle_smalltalk(user_input)
           history == recent(memFile, RECENT_COUNT)
           pre == maybe_prefetch_web_context(user_input, Fs(dirs, files, links), env)
       IN  turn' = IF smalltalk # None
                   THEN [IdleTurn EXCEPT !.phase = "DONE", !.user_input = user_input,
                                         !.answer = Canned(smalltalk)]
                   ELSE IF history.raised \/ (history.py = "str" /\ history.items # <<>>)
                   THEN [IdleTurn EXCEPT !.phase = "RAISED", !.user_input = user_input,
                                         !.nMemReads = 1]
                   ELSE IF pre.lookup = "raised"
                   THEN [IdleTurn EXCEPT !.phase = "RAISED", !.user_input = user_input,
                                         !.nMemReads = 1, !.nLookups = pre.lookups,
                                         !.lookup = pre.lookup]
                   ELSE [IdleTurn EXCEPT !.phase = "AWAIT_MODEL",
                                         !.user_input = user_input,
                                         !.nMemReads = 1,
                                         !.nLookups = pre.lookups,
                                         !.lookup = pre.lookup,
                                         !.context = pre.context,
                                         !.nReq = 1,
                                         !.request = [kind |-> "initial",
                                                      previous_response_id |-> 0,
                                                      context |-> pre.context,
                                                      outputs |-> <<>>]]
    /\ UNCHANGED <<mode, fsVars, pathVars, toolVars, shellVars>>

\* The provider answers the request in flight: a text, or tool calls
\* (agent.py lines 158-160 and 208-214).
ProviderRespond(callList, text) ==
    /\ turn.phase = "AWAIT_MODEL"
    /\ turn' = IF callList = <<>>
               THEN [turn EXCEPT !.phase = "DONE", !.response_id = turn.nReq,
                                 !.response_text = text,
                                 !.request = NoRequest,
                                 !.calls = <<>>, !.outputs = <<>>,
                                 !.answer = FinalText(Strip(text))]
               ELSE [turn EXCEPT !.phase = "EXECUTE_TOOLS", !.response_id = turn.nReq,
                                 !.response_text = text,
                                 !.request = NoRequest,
                                 !.calls = WithIds(turn.nReq, callList),
                                 !.idx = 1, !.outputs = <<>>,
                                 !.nToolResponses = Inc(turn.nToolResponses)]
    /\ UNCHANGED <<mode, fsVars, pathVars, toolVars, shellVars>>

\* One pass of the for loop over the calls (agent.py lines 163-171 and
\* 216-224): execute_tool, and its output appended under the call's id.
ExecuteNextTool(env) ==
    /\ turn.phase = "EXECUTE_TOOLS"
    /\ turn.idx <= Len(turn.calls)
    /\ LET call == turn.calls[turn.idx]
           out == execute_tool(call.name, call.arguments, workspace,
                               Fs(dirs, files, links), env)
       IN  /\ turn' = IF out.raised
                      THEN [turn EXCEPT !.phase = "RAISED", !.executed = TRUE]
                      ELSE [turn EXCEPT !.idx = turn.idx + 1,
                                        !.outputs = Append(turn.outputs,
                                                           [call_id |-> call.id,
                                                            output |-> out.text]),
                                        !.executed = TRUE,
                                        !.nRounds = IF turn.idx = Len(turn.calls)
                                                    THEN Inc(turn.nRounds)
                                                    ELSE turn.nRounds]
           /\ dirs' = out.fs.dirs
           /\ files' = out.fs.files
    /\ UNCHANGED <<mode, workspace, links, pathVars, toolVars, shellVars>>

\* agent.py run_turn_chat: whether the for loop has an iteration left after
\* n requests.
ChatGoesOn(n) == n < MAX_ITERATIONS

\* A mutant of PreviousResponseId: every follow-up names the first response.
PreviousResponseId_First(api_mode, response_id) == IF api_mode = "chat" THEN 0 ELSE 1

\* previous_response_id=response.id (agent.py line 175); the chat variant
\* has no such parameter.
PreviousResponseId(api_mode, response_id) == IF api_mode = "chat" THEN 0 ELSE response_id

\* After the last call of a round: the follow-up request with the outputs
\* (agent.py lines 173-178; the next iteration, lines 201-207), or, in
\* run_turn_chat after the last iteration, the stopping message (line 226).
Resubmit ==
    /\ turn.phase = "EXECUTE_TOOLS"
    /\ turn.idx > Len(turn.calls)
    /\ turn' = IF mode = "chat" /\ ~ChatGoesOn(turn.nReq)
               THEN [turn EXCEPT !.phase = "STOPPED", !.answer = Stopped]
               ELSE [turn EXCEPT !.phase = "AWAIT_MODEL",
                                 !.nReq = Inc(turn.nReq),
                                 !.nFollowups = Inc(turn.nFollowups),
                                 !.request = [kind |-> "followup",
                                              previous_response_id |->
                                                  PreviousResponseId(mode, turn.response_id),
                                              context |->
                                                  IF mode = "chat" THEN turn.context
                                                  ELSE "none",
                                              outputs |-> turn.outputs]]
    /\ UNCHANGED <<mode, fsVars, pathVars, toolVars, shellVars>>

----------------------------------------------------------------------------
(* The specifications.                                                     *)

\* The processes that share one transcript file.
Procs == {1, 2}
NoAppend == [pc |-> "idle", items |-> <<>>, py |-> "list", entry |-> Entry(0, "", "")]
NoProcs == [p \in Procs |-> NoAppend]
NoHist == [log |-> <<>>, writers |-> {}, tampers |-> 0, started |-> [p \in Procs |-> 0]]
NotRecalled ==
    [called |-> FALSE, count |-> 0, raised |-> FALSE, exc |-> "", py |-> "list",
     items |-> <<>>]
NotSelected == [mode |-> "auto", base_url |-> NoUrl, done |-> FALSE, result |-> ""]
NoShell == [kind |-> "none"]
NoMessages == [list |-> <<>>, sent |-> <<>>, requests |-> 0]

\* The variables of the later specifications, at rest.
LaterIdle ==
    /\ memFile = NoMemFile
    /\ memProcs = NoProcs
    /\ memHist = NoHist
    /\ recalled = NotRecalled
    /\ selection = NotSelected
    /\ shell = NoShell
    /\ messages = NoMessages

NotConfined == [done |-> FALSE, raised |-> FALSE, error |-> "", path |-> <<>>]
NoEnv == [rc |-> 0, timeout |-> FALSE, web |-> "nomatch"]
NoCall == [name |-> "", arguments |-> JsEmpty, env |-> NoEnv]
NoOutcome ==
    [called |-> FALSE, raised |-> FALSE, exc |-> "", text |-> json_dumps(NoMembers),
     effects |-> {}]

\* SpecPath: the workspaces, symbolic links and user paths given to
\* _resolve_in_workspace.
PathWorkspaces == {Root, Ws, <<"home", "ws">>, <<"home", "x">>, <<"wslink">>}
PathLinks ==
    {NoLinks, LinkOut,
     [p \in {<<"ws", "sub">>} |-> <<"out">>],
     [p \in {<<"x">>} |-> <<"ws", "a">>],
     [p \in {<<"wslink">>} |-> <<"ws">>]}
PathInputs ==
    {UpX, SubY, LnkY, RelPath(<<".">>), RelPath(<<"..">>), RelPath(<<>>),
     RelPath(<<"sub", "..", "..", "x">>), AbsPath(<<"etc">>), AbsPath(<<"ws", "sub">>)}

InitPath ==
    /\ workspace \in PathWorkspaces
    /\ links \in PathLinks
    /\ dirs = InitDirs
    /\ files = InitFiles
    /\ userPath \in PathInputs
    /\ confined = NotConfined
    /\ lastCall = NoCall
    /\ lastOutcome = NoOutcome
    /\ mode = "responses"
    /\ turn = IdleTurn
    /\ LaterIdle

\* A call of _resolve_in_workspace.
Confine ==
    /\ ~confined.done
    /\ LET r == resolve_in_workspace(workspace, userPath, links)
       IN  confined' = [done |-> TRUE, raised |-> r.raised, error |-> r.error,
                        path |-> r.path]
    /\ UNCHANGED <<fsVars, userPath, toolVars, turnVars, laterVars>>

NextPath == Confine
SpecPath == InitPath /\ [][NextPath]_vars

InitTools ==
    /\ workspace = Ws
    /\ links \in {NoLinks, LinkOut}
    /\ dirs = InitDirs
    /\ files = InitFiles
    /\ userPath = RelPath(<<>>)
    /\ confined = NotConfined
    /\ lastCall = NoCall
    /\ lastOutcome = NoOutcome
    /\ mode = "responses"
    /\ turn = IdleTurn
    /\ LaterIdle

\* A call of execute_tool.
ExecuteTool(name, arguments, env) ==
    /\ LET out == execute_tool(name, arguments, workspace, Fs(dirs, files, links), env)
       IN  /\ lastCall' = [name |-> name, arguments |-> arguments, env |-> env]
           /\ lastOutcome' = [called |-> TRUE, raised |-> out.raised, exc |-> out.exc,
                              text |-> out.text, effects |-> out.effects]
           /\ dirs' = out.fs.dirs
           /\ files' = out.fs.files
    /\ UNCHANGED <<workspace, links, pathVars, turnVars, laterVars>>

NextTools ==
    \E call \in ToolCalls, env \in Envs : ExecuteTool(call.name, call.arguments, env)
SpecTools == InitTools /\ [][NextTools]_vars

Init ==
    /\ workspace = Ws
    /\ links = NoLinks
    /\ dirs = InitDirs
    /\ files = InitFiles
    /\ userPath = RelPath(<<>>)
    /\ confined = NotConfined
    /\ lastCall = NoCall
    /\ lastOutcome = NoOutcome
    /\ mode \in {"responses", "chat"}
    /\ turn = IdleTurn
    /\ LaterIdle

Next ==
    \/ \E user_input \in TurnInputs, env \in Envs :
           StartTurn(user_input, env) /\ UNCHANGED messages
    \/ \E callList \in CallLists \cup {<<>>}, text \in ResponseTexts :
           ProviderRespond(callList, text) /\ UNCHANGED messages
    \/ \E env \in Envs : ExecuteNextTool(env) /\ UNCHANGED messages
    \/ Resubmit /\ UNCHANGED messages

Spec == Init /\ [][Next]_vars

\* SpecChat: run_turn_chat with its message list.  A message is kept by its
\* role and its call identifiers: "tool_calls" of an assistant message,
\* "tool_call_id" of a tool message.
Message(role, tool_calls, tool_call_id) ==
    [role |-> role, tool_calls |-> tool_calls, tool_call_id |-> tool_call_id]

\* messages = [...] (agent.py lines 191-198): the system prompt, the
\* workspace, the recent history, the web context if there is one, the user
\* input.
InitialMessages(context) ==
    <<Message("system", <<>>, 0), Message("system", <<>>, 0), Message("system", <<>>, 0)>>
        \o (IF context = "none" THEN <<>> ELSE <<Message("system", <<>>, 0)>>)
        \o <<Message("user", <<>>, 0)>>

\* A mutant of ToolMessage: every output goes under the id of the round's first call.
ToolMessage_FirstId(calls, i) == Message("tool", <<>>, calls[1].id)

\* {"role": "tool", "tool_call_id": call.id, "content": output} (agent.py
\* lines 218-224)
ToolMessage(calls, i) == Message("tool", <<>>, calls[i].id)

\* {"role": "assistant", "content": ..., "tool_calls": tool_calls} (agent.py
\* line 214)
AssistantMessage(calls) == Message("assistant", [i \in 1..Len(calls) |-> calls[i].id], 0)

\* client.chat.completions.create(messages=messages, ...) (agent.py lines
\* 202-207)
Sent(list) == [list |-> list, sent |-> list, requests |-> Inc(messages.requests)]

ChatInputs == {<<"f", "i", "x", " ", "i", "t">>, <<"w", "h", "a", "t", " ", "i", "s", " ", "t", "l", "a", "?">>}
ChatCallLists ==
    {<<ToolCall("read_file", JsObject(Member("path", StrV(Readme))))>>,
     <<ToolCall("read_file", JsObject(Member("path", StrV(Readme)))),
       ToolCall("write_file",
                JsObject(Members2("path", StrV(SubY), "content", StrV(<<"a">>))))>>,
     <<ToolCall("read_file", JsObject(Member("path", StrV(Readme)))),
       ToolCall("read_file", JsArray)>>}
ChatTexts == {<<"o", "k">>}
ChatEnvs == {e \in Envs : e.web \in {"wikipedia", "neterror"}}

InitChat ==
    /\ workspace = Ws
    /\ links = NoLinks
    /\ dirs = InitDirs
    /\ files = InitFiles
    /\ userPath = RelPath(<<>>)
    /\ confined = NotConfined
    /\ lastCall = NoCall
    /\ lastOutcome = NoOutcome
    /\ mode = "chat"
    /\ turn = IdleTurn
    /\ LaterIdle

ChatStartTurn(user_input, env) ==
    /\ StartTurn(user_input, env)
    /\ messages' = IF turn'.phase = "AWAIT_MODEL"
                   THEN [list |-> InitialMessages(turn'.context),
                         sent |-> InitialMessages(turn'.context),
                         requests |-> 1]
                   ELSE NoMessages

ChatProviderRespond(callList, text) ==
    /\ ProviderRespond(callList, text)
    /\ messages' = IF callList = <<>>
                   THEN messages
                   ELSE [messages EXCEPT
                            !.list = Append(@, AssistantMessage(turn'.calls))]

ChatExecuteNextTool(env) ==
    /\ ExecuteNextTool(env)
    /\ messages' = IF turn'.phase = "RAISED"
                   THEN messages
                   ELSE [messages EXCEPT
                            !.list = Append(@, ToolMessage(turn.calls, turn.idx))]

ChatResubmit ==
    /\ Resubmit
    /\ messages' = IF turn'.phase = "AWAIT_MODEL" THEN Sent(messages.list) ELSE messages

NextChat ==
    \/ \E user_input \in ChatInputs, env \in ChatEnvs : ChatStartTurn(user_input, env)
    \/ \E callList \in ChatCallLists \cup {<<>>}, text \in ChatTexts :
           ChatProviderRespond(callList, text)
    \/ \E env \in ChatEnvs : ChatExecuteNextTool(env)
    \/ ChatResubmit

SpecChat == InitChat /\ [][NextChat]_vars

\* SpecMode: _choose_api_mode on every mode argument and base URL.
InitMode ==
    /\ workspace = Ws
    /\ links = NoLinks
    /\ dirs = InitDirs
    /\ files = InitFiles
    /\ userPath = RelPath(<<>>)
    /\ confined = NotConfined
    /\ lastCall = NoCall
    /\ lastOutcome = NoOutcome
    /\ mode = "responses"
    /\ turn = IdleTurn
    /\ memFile = NoMemFile
    /\ memProcs = NoProcs
    /\ memHist = NoHist
    /\ recalled = NotRecalled
    /\ selection \in {[mode |-> m, base_url |-> u, done |-> FALSE, result |-> ""] :
                         m \in ModeArgs, u \in BaseUrls}
    /\ shell = NoShell
    /\ messages = NoMessages

\* A call of _choose_api_mode.
ChooseApiMode ==
    /\ ~selection.done
    /\ selection' = [selection EXCEPT
                        !.done = TRUE,
                        !.result = choose_api_mode(selection.mode, selection.base_url)]
    /\ UNCHANGED <<fsVars, pathVars, toolVars, turnVars, memVars, shell, messages>>

NextMode == ChooseApiMode
SpecMode == InitMode /\ [][NextMode]_vars

\* SpecShell: a session of one of the two shells, the console loop of
\* agent.py main or the window of gui.py, on the turn engine.  config is
\* what the session is started with: whether OPENAI_API_KEY is set, the
\* base URL and the mode argument.
MaxTurns == 2
MaxConnects == 2
ShellInputs == {<<"h", "i">>, <<"f", "i", "x", " ", "i", "t">>, <<" ">>, <<"e", "x", "i", "t">>}
BoxTexts == {<<"f", "i", "x", " ", "i", "t">>, <<" ">>}
ShellCallLists ==
    {<<>>,
     <<ToolCall("read_file", JsObject(Member("path", StrV(Readme))))>>,
     <<ToolCall("read_file", JsArray)>>}
ShellTexts == {<<"o", "k">>}
ShellEnvs == {e \in Envs : e.web \in {"wikipedia", "neterror"}}
ShellConfigs ==
    {[has_key |-> k, base_url |-> u, mode_arg |-> "auto"] :
        k \in BOOLEAN,
        u \in {NoUrl, Url(<<"h", "t", "t", "p", ":", "/", "/", "l", "o", "c", "a", "l", "h", "o", "s", "t">>)}}

\* "localhost" in base_url.lower() or "127.0.0.1" in base_url.lower()
\* (agent.py line 244, gui.py line 318)
IsLocal(base_url) ==
    /\ base_url.given
    /\ base_url.text # <<>>
    /\ (Contains(Lower(base_url.text), Localhost) \/ Contains(Lower(base_url.text), Loopback4))

\* f"Error: {exc}" (gui.py line 420)
ErrorAnswer == [kind |-> "error", reply |-> "Error", text |-> <<>>]
Line(who, text, answer) == [who |-> who, text |-> text, answer |-> answer]

NewShell(kind, config) ==
    [kind |-> kind,           \* "cli" or "gui"
     config |-> config,
     pc |-> "startup",        \* startup, input, turn; exited, stopped, crashed
     started |-> FALSE,       \* the startup has succeeded: there is a client
     user_text |-> <<>>,      \* the message of the turn
     transcript |-> <<>>,     \* what the shell has shown
     turns |-> 0,             \* turns begun
     clock |-> 0,             \* the time of the transcript entries
     busy |-> FALSE,          \* gui: self.busy
     busySetBy |-> {},        \* gui: the threads that have assigned self.busy
     input_box |-> <<>>,      \* gui: the text of the input box
     workers |-> 0,           \* gui: _run_agent threads running
     after |-> <<>>,          \* gui: answers handed over with root.after
     connects |-> 0,          \* gui: calls of connect
     lastSend |-> "none",     \* gui: how the last send ended
     sendTick |-> 0,          \* gui: flips at every send
     store |-> Ws,            \* gui: self.workspace, the workspace of self.memory
     bound |-> FALSE,         \* gui: the thread has read self.workspace, self.memory
     otherFile |-> NoMemFile] \* gui: the transcript file of the other workspace

\* run_turn_responses or run_turn_chat has returned or raised.
TurnEnded == turn.phase \in {"DONE", "STOPPED", "RAISED"}

\* The request to the provider fails: client.responses.create or
\* client.chat.completions.create raises (agent.py lines 151 and 202).
ProviderFail ==
    /\ turn.phase = "AWAIT_MODEL"
    /\ turn' = [turn EXCEPT !.phase = "RAISED", !.request = NoRequest]
    /\ UNCHANGED <<mode, fsVars, pathVars, toolVars, shellVars>>

\* The turn engine as the shell runs it.
ShellStartTurn(env) ==
    /\ shell.pc = "turn" /\ turn.phase = "IDLE"
    /\ shell.kind = "gui" => shell.bound
    /\ StartTurn(shell.user_text, env)
    /\ UNCHANGED messages
ShellProviderRespond(callList, text) ==
    shell.pc = "turn" /\ ProviderRespond(callList, text) /\ UNCHANGED messages
ShellProviderFail == shell.pc = "turn" /\ ProviderFail /\ UNCHANGED messages
ShellExecuteNextTool(env) ==
    shell.pc = "turn" /\ ExecuteNextTool(env) /\ UNCHANGED messages
ShellResubmit == shell.pc = "turn" /\ Resubmit /\ UNCHANGED messages

\* agent.py main, lines 229-260: the credential check, the workspace, the
\* store and the mode.
Main_Startup ==
    /\ shell.kind = "cli"
    /\ shell.pc = "startup"
    /\ IF ~shell.config.has_key /\ ~IsLocal(shell.config.base_url)
       THEN /\ shell' = [shell EXCEPT !.pc = "exited"]
            /\ UNCHANGED <<dirs, mode>>
       ELSE /\ shell' = [shell EXCEPT !.pc = "input", !.started = TRUE]
            /\ dirs' = dirs \cup {workspace, Append(workspace, ".agent")}
            /\ mode' = choose_api_mode(shell.config.mode_arg, shell.config.base_url)
    /\ UNCHANGED <<workspace, links, files, pathVars, toolVars, turn, memVars, selection, messages>>

Exit == <<"e", "x", "i", "t">>
Quit == <<"q", "u", "i", "t">>

\* agent.py main, lines 263-275: a line is read; an empty one is skipped,
\* exit and quit stop the loop, any other is appended to the transcript
\* file and begins a turn.
Main_Input(line) ==
    /\ shell.kind = "cli"
    /\ shell.pc = "input"
    /\ shell.turns < MaxTurns
    /\ LET user_input == Strip(line)
           mem == append(memFile, Entry(shell.clock, "user", user_input))
       IN  IF user_input = <<>> THEN UNCHANGED <<shell, memFile>>
           ELSE IF Lower(user_input) \in {Exit, Quit}
                THEN shell' = [shell EXCEPT !.pc = "stopped"] /\ UNCHANGED memFile
           ELSE IF mem.raised
                THEN shell' = [shell EXCEPT !.pc = "crashed"] /\ UNCHANGED memFile
           ELSE /\ shell' = [shell EXCEPT !.pc = "turn", !.user_text = user_input,
                                          !.turns = @ + 1, !.clock = @ + 1]
                /\ memFile' = mem.file
    /\ UNCHANGED <<fsVars, pathVars, toolVars, turnVars, memProcs, memHist, recalled, selection, messages>>

\* agent.py main, lines 280-281: the answer of the turn is printed and
\* appended to the transcript file.
Main_Answer ==
    /\ shell.kind = "cli"
    /\ shell.pc = "turn"
    /\ turn.phase \in {"DONE", "STOPPED"}
    /\ LET mem == append(memFile, Entry(shell.clock, "assistant", turn.answer))
           shown == Append(shell.transcript, Line("agent", <<>>, turn.answer))
       IN  IF mem.raised
           THEN /\ shell' = [shell EXCEPT !.pc = "crashed", !.transcript = shown]
                /\ UNCHANGED memFile
           ELSE /\ shell' = [shell EXCEPT !.pc = "input", !.transcript = shown,
                                          !.clock = @ + 1]
                /\ memFile' = mem.file
    /\ turn' = IdleTurn
    /\ UNCHANGED <<fsVars, pathVars, toolVars, mode, memProcs, memHist, recalled, selection, messages>>

\* agent.py main, lines 276-279: nothing catches what run_turn_chat or
\* run_turn_responses raises; the exception leaves main and the process
\* ends.
Main_Crash ==
    /\ shell.kind = "cli"
    /\ shell.pc = "turn"
    /\ turn.phase = "RAISED"
    /\ shell' = [shell EXCEPT !.pc = "crashed"]
    /\ UNCHANGED <<fsVars, pathVars, toolVars, turnVars, memVars, selection, messages>>

\* The workspaces the window is connected to: the working directory it was
\* started in and another one typed into the workspace field.
Ws2 == <<"ws2">>
ShellWorkspaces == {Ws, Ws2}

\* The transcript file of workspace w: memFile is the file of the workspace
\* the turn engine runs in, shell.otherFile that of the other one.
FileOf(w) == IF w = workspace THEN memFile ELSE shell.otherFile

\* gui.py connect, lines 312-332, called by main before the event loop and
\* by the Connect button, w being the workspace in the workspace field.
Connect(w) ==
    /\ shell.kind = "gui"
    /\ shell.connects < MaxConnects
    /\ shell.pc = "startup" => w = Ws
    /\ IF ~shell.config.has_key /\ ~IsLocal(shell.config.base_url)
       THEN /\ shell' = [shell EXCEPT !.pc = IF @ = "startup" THEN "input" ELSE @,
                                      !.connects = @ + 1]
            /\ dirs' = dirs \cup {w}
            /\ UNCHANGED mode
       ELSE /\ shell' = [shell EXCEPT !.pc = IF @ = "startup" THEN "input" ELSE @,
                                      !.connects = @ + 1,
                                      !.started = TRUE,
                                      !.store = w,
                                      !.transcript = Append(@, Line("system", <<>>, NoAnswer))]
            /\ dirs' = dirs \cup {w, Append(w, ".agent")}
            /\ mode' = choose_api_mode(shell.config.mode_arg, shell.config.base_url)
    /\ UNCHANGED <<workspace, links, files, pathVars, toolVars, turn, memVars, selection, messages>>

\* The user edits the input box.
TypeText(text) ==
    /\ shell.kind = "gui"
    /\ shell.pc # "startup"
    /\ shell' = [shell EXCEPT !.input_box = text]
    /\ UNCHANGED <<fsVars, pathVars, toolVars, turnVars, memVars, selection, messages>>

\* A mutant of SendIgnored: send does not look at busy.
SendIgnored_Never(busy) == FALSE

\* if self.busy: return (gui.py lines 386-387)
SendIgnored(busy) == busy

\* gui.py send, lines 385-406, on the interface thread.  When
\* memory.append raises, the handler ends there: the box is cleared and
\* the message shown, busy is not set and no thread is started.
Send ==
    /\ shell.kind = "gui"
    /\ shell.pc # "startup"
    /\ LET user_text == Strip(shell.input_box)
           mem == append(FileOf(shell.store), Entry(shell.clock, "user", user_text))
           tick == [shell EXCEPT !.sendTick = 1 - @]
       IN  IF SendIgnored(shell.busy)
           THEN shell' = [tick EXCEPT !.lastSend = "busy"] /\ UNCHANGED memFile
           ELSE IF ~shell.started
                THEN shell' = [tick EXCEPT !.lastSend = "unconnected"] /\ UNCHANGED memFile
           ELSE IF user_text = <<>> \/ shell.turns >= MaxTurns
                THEN shell' = [tick EXCEPT !.lastSend = "empty"] /\ UNCHANGED memFile
           ELSE IF mem.raised
                THEN /\ shell' = [tick EXCEPT
                                     !.lastSend = "raised",
                                     !.input_box = <<>>,
                                     !.transcript = Append(@, Line("you", user_text, NoAnswer))]
                     /\ UNCHANGED memFile
           ELSE LET started == [tick EXCEPT
                                   !.lastSend = "started",
                                   !.input_box = <<>>,
                                   !.transcript = Append(@, Line("you", user_text, NoAnswer)),
                                   !.busy = TRUE,
                                   !.busySetBy = @ \cup {"interface"},
                                   !.workers = @ + 1,
                                   !.pc = "turn",
                                   !.user_text = user_text,
                                   !.turns = @ + 1,
                                   !.clock = @ + 1]
                IN  IF shell.store = workspace
                    THEN shell' = started /\ memFile' = mem.file
                    ELSE /\ shell' = [started EXCEPT !.otherFile = mem.file]
                         /\ UNCHANGED memFile
    /\ UNCHANGED <<fsVars, pathVars, toolVars, turnVars, memProcs, memHist, recalled, selection, messages>>

\* gui.py _run_agent, lines 409-418, on the worker thread: the thread
\* computes the mode and reads self.workspace and self.memory, which the
\* turn runs with.
RunAgentStart ==
    /\ shell.kind = "gui"
    /\ shell.pc = "turn"
    /\ turn.phase = "IDLE"
    /\ ~shell.bound
    /\ mode' = choose_api_mode(shell.config.mode_arg, shell.config.base_url)
    /\ workspace' = shell.store
    /\ memFile' = FileOf(shell.store)
    /\ shell' = [shell EXCEPT !.bound = TRUE,
                              !.otherFile = IF shell.store = workspace THEN @ ELSE memFile]
    /\ UNCHANGED <<links, dirs, files, pathVars, toolVars, turn, memProcs, memHist,
                   recalled, selection, messages>>

\* gui.py _run_agent, lines 414-422, on the worker thread: the turn is
\* over; its answer, or the text of the exception it raised, is handed to
\* the interface thread with root.after, and the thread ends.
RunAgentDone ==
    /\ shell.kind = "gui"
    /\ shell.pc = "turn"
    /\ TurnEnded
    /\ shell' = [shell EXCEPT
                    !.after = Append(@, IF turn.phase = "RAISED" THEN ErrorAnswer
                                        ELSE turn.answer),
                    !.workers = @ - 1,
                    !.bound = FALSE,
                    !.pc = IF shell.workers > 1 THEN "turn" ELSE "input"]
    /\ turn' = IdleTurn
    /\ UNCHANGED <<fsVars, pathVars, toolVars, mode, memVars, selection, messages>>

\* gui.py _on_agent_done, lines 424-431, on the interface thread, which
\* runs what root.after has queued.
OnAgentDone ==
    /\ shell.kind = "gui"
    /\ shell.after # <<>>
    /\ LET answer == Head(shell.after)
           mem == append(FileOf(shell.store), Entry(shell.clock, "assistant", answer))
           shown == [shell EXCEPT !.after = Tail(@),
                                  !.transcript = Append(@, Line("agent", <<>>, answer))]
           done == [shown EXCEPT !.busy = FALSE,
                                 !.busySetBy = @ \cup {"interface"},
                                 !.clock = @ + 1]
       IN  IF mem.raised
           THEN shell' = shown /\ UNCHANGED memFile
           ELSE IF shell.store = workspace
                THEN shell' = done /\ memFile' = mem.file
                ELSE /\ shell' = [done EXCEPT !.otherFile = mem.file]
                     /\ UNCHANGED memFile
    /\ UNCHANGED <<fsVars, pathVars, toolVars, turnVars, memProcs, memHist, recalled, selection, messages>>

InitShell ==
    /\ workspace = Ws
    /\ links = NoLinks
    /\ dirs = InitDirs
    /\ files = InitFiles
    /\ userPath = RelPath(<<>>)
    /\ confined = NotConfined
    /\ lastCall = NoCall
    /\ lastOutcome = NoOutcome
    /\ mode = "responses"
    /\ turn = IdleTurn
    /\ memFile = NoMemFile
    /\ memProcs = NoProcs
    /\ memHist = NoHist
    /\ recalled = NotRecalled
    /\ selection = NotSelected
    /\ shell \in {NewShell(k, c) : k \in {"cli", "gui"}, c \in ShellConfigs}
    /\ messages = NoMessages

NextShell ==
    \/ Main_Startup
    \/ \E line \in ShellInputs : Main_Input(line)
    \/ Main_Answer
    \/ Main_Crash
    \/ \E w \in ShellWorkspaces : Connect(w)
    \/ \E text \in BoxTexts : TypeText(text)
    \/ Send
    \/ RunAgentStart
    \/ RunAgentDone
    \/ OnAgentDone
    \/ \E env \in ShellEnvs : ShellStartTurn(env)
    \/ \E callList \in ShellCallLists, text \in ShellTexts :
           ShellProviderRespond(callList, text)
    \/ ShellProviderFail
    \/ \E env \in ShellEnvs : ShellExecuteNextTool(env)
    \/ ShellResubmit
SpecShell == InitShell /\ [][NextShell]_vars

\* SpecShellFair: the session with its threads scheduled and its requests
\* answered.  A thread that can take its next step takes it (the worker
\* thread is a daemon thread of a running process; the interface thread
\* runs what root.after queues), and a request to the provider returns or
\* raises (the client has a timeout).  Each step of the turn engine leaves
\* the place it is taken at, so that its weak fairness is that the turn
\* does not stay at that place for ever: before its first step, at a
\* request, in the loop over the tool calls.
StartTurnEnabled ==
    /\ shell.pc = "turn" /\ turn.phase = "IDLE"
    /\ shell.kind = "gui" => shell.bound
ProviderPending == shell.pc = "turn" /\ turn.phase = "AWAIT_MODEL"
ToolsPending == shell.pc = "turn" /\ turn.phase = "EXECUTE_TOOLS"
SpecShellFair ==
    /\ SpecShell
    /\ WF_vars(RunAgentStart)
    /\ []<>(~StartTurnEnabled)
    /\ []<>(~ProviderPending)
    /\ []<>(~ToolsPending)
    /\ WF_vars(RunAgentDone)
    /\ WF_vars(OnAgentDone)

\* SpecMemory: two processes with a MemoryStore each on one transcript
\* file (two shells opened on one workspace).  Process 1 is the writer the
\* claims follow; process 2 is its rival.
MaxAppends == 9
MaxRivalAppends == 1
MaxTampers == 1
\* The shells append the user's message and the agent's answer in turn
\* (agent.py lines 275 and 281, gui.py lines 398 and 427).
MemMessage(n) ==
    IF n % 2 = 0 THEN [role |-> "user", content |-> "q"]
    ELSE [role |-> "assistant", content |-> "a"]
\* What may be put in the place of the file from outside.
TamperContents ==
    {MemContent("text", <<>>), MemContent("object", <<>>),
     MemContent("string", <<"a", "b", "c">>), MemContent("bytes", <<>>)}
\* The counts given to recent: none, one, and the 8 of the turn engine.
RecentCounts == {0, 1, RECENT_COUNT}
AppendBound(p) == IF p = 1 THEN MaxAppends ELSE MaxRivalAppends
Started == memHist.started[1] + memHist.started[2]

InitMemory ==
    /\ workspace = Ws
    /\ links = NoLinks
    /\ dirs = InitDirs
    /\ files = InitFiles
    /\ userPath = RelPath(<<>>)
    /\ confined = NotConfined
    /\ lastCall = NoCall
    /\ lastOutcome = NoOutcome
    /\ mode = "responses"
    /\ turn = IdleTurn
    /\ LaterIdle

\* memory.py line 26 of append in process p: items = self._read_all().
AppendRead(p) ==
    /\ memProcs[p].pc = "idle"
    /\ memHist.started[p] < AppendBound(p)
    /\ LET r == read_all(memFile)
           msg == MemMessage(memHist.started[p])
       IN  memProcs' = [memProcs EXCEPT ![p] =
                           IF r.raised THEN [NoAppend EXCEPT !.pc = "raised"]
                           ELSE [pc |-> "read", items |-> r.items, py |-> r.py,
                                 entry |-> Entry(Started + 1, msg.role, msg.content)]]
    /\ memHist' = [memHist EXCEPT !.started[p] = @ + 1]
    /\ recalled' = NotRecalled
    /\ UNCHANGED <<fsVars, pathVars, toolVars, turnVars, memFile, selection, messages, shell>>

\* memory.py lines 27-34 of append in process p: items.append(...) and
\* self._write_all(items).
AppendWrite(p) ==
    /\ memProcs[p].pc = "read"
    /\ IF memProcs[p].py # "list"
       THEN /\ memProcs' = [memProcs EXCEPT ![p] = [NoAppend EXCEPT !.pc = "raised"]]
            /\ UNCHANGED <<memFile, memHist>>
       ELSE /\ memFile' = write_all(appended(memProcs[p].items, memProcs[p].entry))
            /\ memHist' = [memHist EXCEPT !.log = Append(@, memProcs[p].entry),
                                          !.writers = @ \cup {p}]
            /\ memProcs' = [memProcs EXCEPT ![p] = NoAppend]
    /\ recalled' = NotRecalled
    /\ UNCHANGED <<fsVars, pathVars, toolVars, turnVars, selection, messages, shell>>

\* The caller of append in process p goes on after the exception.
AppendRaised(p) ==
    /\ memProcs[p].pc = "raised"
    /\ memProcs' = [memProcs EXCEPT ![p] = NoAppend]
    /\ recalled' = NotRecalled
    /\ UNCHANGED <<fsVars, pathVars, toolVars, turnVars, memFile, memHist, selection, messages, shell>>

\* MemoryStore.recent(count) in process 1, between two of its appends.
\* recalled is what the call returned, until the next operation.
Recent(count) ==
    /\ memProcs[1].pc = "idle"
    /\ LET r == recent(memFile, count)
       IN  recalled' = [called |-> TRUE, count |-> count, raised |-> r.raised,
                        exc |-> r.exc, py |-> r.py, items |-> r.items]
    /\ UNCHANGED <<fsVars, pathVars, toolVars, turnVars, memFile, memProcs, memHist,
                   selection, shell, messages>>

\* The file is replaced from outside the program.
Tamper(content) ==
    /\ memHist.tampers < MaxTampers
    /\ memFile' = content
    /\ memHist' = [memHist EXCEPT !.tampers = @ + 1]
    /\ recalled' = NotRecalled
    /\ UNCHANGED <<fsVars, pathVars, toolVars, turnVars, memProcs, selection, messages, shell>>

NextMemory ==
    \/ \E p \in Procs : AppendRead(p)
    \/ \E p \in Procs : AppendWrite(p)
    \/ \E p \in Procs : AppendRaised(p)
    \/ \E count \in RecentCounts : Recent(count)
    \/ \E content \in TamperContents : Tamper(content)
SpecMemory == InitMemory /\ [][NextMemory]_vars

----------------------------------------------------------------------------
(* The claims about the workspace guard (SpecPath).                        *)

\* C5, as stated: _resolve_in_workspace refuses "../x" with the path-escape
\* error for every workspace, the filesystem root included, and accepts
\* "sub/y" for every workspace, returning <workspace>/sub/y.
C5_ConfineAsStated ==
    confined.done =>
        /\ userPath = UpX => (confined.raised /\ confined.error = PathEscape)
        /\ userPath = SubY =>
               (~confined.raised /\ confined.path = workspace \o <<"sub", "y">>)

\* C5, amended: where no symbolic link is met on the way, "../x" is
\* refused with the path-escape error for every workspace but the
\* filesystem root and a workspace that is itself named x; for those two
\* "../x" is a path inside the workspace (/x, the workspace itself) and is
\* accepted; "sub/y" is accepted for every workspace and gives sub/y below
\* the resolved workspace.
C5_Confine ==
    LET wr == Resolve(workspace, links)
        sibling == Append(Parent(wr), "x")
    IN  confined.done =>
            /\ (userPath = UpX /\ wr # Root /\ wr # sibling /\ sibling \notin DOMAIN links)
                   => (confined.raised /\ confined.error = PathEscape)
            /\ (userPath = UpX /\ (wr = Root \/ wr = sibling) /\ sibling \notin DOMAIN links)
                   => (~confined.raised /\ confined.path = sibling)
            /\ (userPath = SubY /\ Append(wr, "sub") \notin DOMAIN links
                    /\ wr \o <<"sub", "y">> \notin DOMAIN links)
                   => (~confined.raised /\ confined.path = wr \o <<"sub", "y">>)

\* "../x" has been given at the filesystem root and was accepted as /x.
C5_Witness ==
    /\ confined.done
    /\ workspace = Root
    /\ userPath = UpX
    /\ ~confined.raised
    /\ confined.path = <<"x">>

----------------------------------------------------------------------------
(* The claims about the tool executor (SpecTools).                         *)

LastResult == lastOutcome.text.json
LastArgs == json_loads(lastCall.arguments)
Spawned == \E e \in lastOutcome.effects : e.op = "spawn"

\* C6: a call of read_file, write_file, list_files or run_shell whose path
\* argument (cwd for run_shell) leads outside the workspace returns an
\* ok:false result, and creates no directory, writes no file, reads no file
\* content and starts no process.
C6_EscapeRefused ==
    LET pa == PathArgument(lastCall.name, lastCall.arguments)
    IN  (lastOutcome.called /\ pa.given /\ LeadsOutside(workspace, pa.path, links))
            => /\ ~lastOutcome.raised
               /\ "ok" \in DOMAIN LastResult
               /\ LastResult.ok = FALSE
               /\ \A e \in lastOutcome.effects :
                      e.op \notin {"mkdir", "write", "read", "spawn"}

\* write_file has been given a path through the link ws/lnk, which leads
\* to /out, and refused it.
C6_Witness ==
    /\ lastOutcome.called
    /\ lastCall.name = "write_file"
    /\ PathArgument(lastCall.name, lastCall.arguments).given
    /\ PathArgument(lastCall.name, lastCall.arguments).path = LnkY
    /\ links = LinkOut
    /\ LastResult = Failure(PathEscape)

\* C7: after any sequence of tool calls every change a tool made to the
\* filesystem lies inside the workspace: outside it no file has appeared
\* or changed and no directory has appeared.
C7_EffectsInsideWorkspace ==
    /\ \A p \in DOMAIN files :
           (p \notin DOMAIN InitFiles \/ files[p] # InitFiles[p]) => Within(workspace, p)
    /\ \A d \in dirs \ InitDirs : Within(workspace, d)

\* C8: run_shell starts a process only if the first token of the command is
\* in the allowlist; for every other command it returns ok:false with the
\* allowlist attached.
C8_SpawnOnlyAllowlisted ==
    LET command == Get(LastArgs.d, "command", StrV(EmptyCommand))
        first == FirstToken(command.v.text)
    IN  (lastOutcome.called /\ lastCall.name = "run_shell" /\ LastArgs.py = "dict"
            /\ IsStr(command))
            => /\ Spawned => first \in ALLOWED_COMMAND_PREFIXES
               /\ (first \notin ALLOWED_COMMAND_PREFIXES /\ "cwd" \notin DOMAIN LastArgs.d)
                      => (/\ ~lastOutcome.raised
                          /\ LastResult.ok = FALSE
                          /\ "allowed_prefixes" \in DOMAIN LastResult)

\* C9: for every tool name and every arguments string execute_tool returns
\* a serialized result with an ok field and raises nothing.
C9_NeverRaises ==
    lastOutcome.called => (~lastOutcome.raised /\ "ok" \in DOMAIN LastResult)

\* C11: when run_shell has started the process of an accepted command, it
\* returns, with ok true exactly when the process ended with exit code 0
\* before the timeout, and with ok false and the timed-out error when the
\* timeout expired.
C11_ShellResult ==
    (lastOutcome.called /\ lastCall.name = "run_shell" /\ Spawned)
        => /\ ~lastOutcome.raised
           /\ "ok" \in DOMAIN LastResult
           /\ LastResult.ok = (lastCall.env.rc = 0 /\ ~lastCall.env.timeout)
           /\ lastCall.env.timeout => LastResult = Failure("Command timed out")

\* An accepted command whose process outlived the timeout.
C11_Witness ==
    /\ lastOutcome.called
    /\ lastCall.name = "run_shell"
    /\ LastArgs.d = Member("command", StrV(EchoHi))
    /\ Spawned
    /\ lastCall.env.timeout
    /\ LastResult.ok = FALSE

\* C12: a read_file that directly follows a successful write_file of a
\* text to the same path returns that text, cut to its last 16000
\* characters; carriage returns and line feeds in the text included.
C12_WriteThenRead ==
    [][LET w == json_loads(lastCall.arguments).d
           r == json_loads(lastCall'.arguments).d
       IN  (/\ lastOutcome.called /\ lastCall.name = "write_file"
            /\ ~lastOutcome.raised /\ LastResult.ok
            /\ "path" \in DOMAIN w /\ "content" \in DOMAIN w /\ IsStr(w.content)
            /\ lastCall'.name = "read_file"
            /\ "path" \in DOMAIN r /\ r.path = w.path)
               => /\ ~lastOutcome'.raised
                  /\ lastOutcome'.text.json.ok
                  /\ lastOutcome'.text.json.content = LastN(w.content.v, READ_CAP)]_vars

\* C15: web_lookup of a string query raises nothing; for a query that is
\* empty or blank it returns ok false and asks no source; when neither
\* source gives a summary it returns ok false with an error that is not
\* empty.
C15_WebLookupNeverRaises ==
    LET query == Get(LastArgs.d, "query", EmptyText)
    IN  (lastOutcome.called /\ lastCall.name = "web_lookup" /\ LastArgs.py = "dict"
             /\ IsStr(query))
            => /\ ~lastOutcome.raised
               /\ Strip(query.v) = <<>>
                      => /\ LastResult.ok = FALSE
                         /\ \A e \in lastOutcome.effects : e.op # "http"
               /\ (Strip(query.v) # <<>> /\ lastCall.env.web \in {"nomatch", "neterror"})
                      => (LastResult.ok = FALSE /\ LastResult.error # "")

\* What the sources answered to the last call, and which of them it asked.
LastWeb == WebAnswers(lastCall.env.web)
Asked(source) == source \in lastOutcome.effects
WebLookupCalled == lastOutcome.called /\ lastCall.name = "web_lookup"

\* The order of the sources, the extract that wins and the length of the
\* summary: DuckDuckGo is asked only after Wikipedia gave no extract, an
\* extract of Wikipedia is the result, and no summary is longer than 1200.
SourcesInOrder ==
    /\ Asked(AskedDuckDuckGo) => (Asked(AskedWikipedia) /\ LastWeb.wiki.kind # "extract")
    /\ (Asked(AskedWikipedia) /\ LastWeb.wiki.kind = "extract")
           => /\ ~lastOutcome.raised
              /\ LastResult.ok
              /\ LastResult.source = "wikipedia"
              /\ LastResult.summary
                     = SubSeq(LastWeb.wiki.text, 1, Min(Len(LastWeb.wiki.text), SUMMARY_CAP))
    /\ (~lastOutcome.raised /\ LastResult.ok) => Len(LastResult.summary) <= SUMMARY_CAP

----------------------------------------------------------------------------
(* The claims about the turn engine (Spec).                                *)

TurnOver == turn.phase \in {"DONE", "STOPPED", "RAISED"}
RoundOver == turn.phase \in {"AWAIT_MODEL", "STOPPED", "RAISED"} /\ turn.calls # <<>>

\* The request in flight is the one follow-up of the round: it carries one
\* output for each call of the last response, in the order of the calls,
\* each under the identifier of its call.
FollowupCarriesRound ==
    /\ turn.phase = "AWAIT_MODEL"
    /\ turn.request.kind = "followup"
    /\ turn.nFollowups = turn.nToolResponses
    /\ Len(turn.request.outputs) = Len(turn.calls)
    /\ \A i \in 1..Len(turn.calls) : turn.request.outputs[i].call_id = turn.calls[i].id

\* C1: in both variants every turn ends, in DONE or STOPPED, within a
\* bounded number of provider round-trips whatever the provider answers:
\* no turn makes more requests than the iteration bound of the engine.
C1_BoundedRoundTrips == turn.nReq <= MAX_ITERATIONS

\* C2: in the chat variant, a turn in which every response carried a tool
\* call ends with exactly 12 requests made, the calls of exactly 12 rounds
\* executed and the fixed stopping message returned; there is no 13th
\* request.
C2_ChatStopsAfterTwelve ==
    mode = "chat" =>
        /\ turn.nReq <= MAX_ITERATIONS
        /\ (TurnOver /\ turn.nReq > 0 /\ turn.nToolResponses = turn.nReq)
               => /\ turn.phase = "STOPPED"
                  /\ turn.nReq = MAX_ITERATIONS
                  /\ turn.nRounds = MAX_ITERATIONS
                  /\ turn.answer = Stopped

C4_RoundAnsweredInOneFollowup ==
    /\ \A i \in 1..Len(turn.outputs) : turn.outputs[i].call_id = turn.calls[i].id
    /\ (RoundOver /\ Len(turn.calls) >= 2) => FollowupCarriesRound

\* C10: a call whose arguments are no valid JSON gets the ok:false result
\* "Invalid JSON args", and the other calls of its round are still
\* executed, each with its own result in the follow-up.
C10_InvalidArgumentsReported ==
    LET invalid(i) == turn.calls[i].arguments.js = "invalid"
    IN  /\ \A i \in 1..Len(turn.outputs) :
               invalid(i) => turn.outputs[i].output = json_dumps(Failure("Invalid JSON args"))
        /\ (RoundOver /\ \E i \in 1..Len(turn.calls) : invalid(i)) => FollowupCarriesRound

\* C20: when a turn is over, no output of a tool call it executed is left
\* that was not submitted to the provider in a later request of the turn.
C20_NoResultDiscarded == TurnOver => turn.outputs = <<>>

\* t is s without the whitespace at its two ends.
Trimmed(s, t) ==
    /\ t = <<>> \/ (~IsSpace(t[1]) /\ ~IsSpace(t[Len(t)]))
    /\ \E i \in 1..(Len(s) + 1) :
           /\ i + Len(t) - 1 <= Len(s)
           /\ t = SubSeq(s, i, i + Len(t) - 1)
           /\ \A k \in 1..Len(s) : (k < i \/ k > i + Len(t) - 1) => IsSpace(s[k])

\* C21: in both variants a response without tool calls ends the turn in
\* DONE with the text of that response, trimmed, as the answer; after it
\* the turn executes no tool and makes no request (the next thing that
\* happens is the first request of a new turn); and the filesystem changes
\* only while the engine executes a call of the response to its latest
\* request.
C21_TextResponseEndsTurn ==
    /\ [](turn.phase = "DONE" /\ turn.nReq > 0
              => /\ turn.answer.kind = "text"
                 /\ Trimmed(turn.response_text, turn.answer.text)
                 /\ turn.response_id = turn.nReq
                 /\ turn.calls = <<>>)
    /\ [][turn.phase = "DONE"
              => /\ files' = files /\ dirs' = dirs
                 /\ turn'.nReq <= 1
                 /\ turn'.nReq = 1 => turn'.request.kind = "initial"]_vars
    /\ [][(files' # files \/ dirs' # dirs \/ (turn'.executed /\ ~turn.executed)
               \/ Len(turn'.outputs) > Len(turn.outputs))
              => /\ turn.phase = "EXECUTE_TOOLS"
                 /\ turn.idx \in 1..Len(turn.calls)
                 /\ turn.response_id = turn.nReq]_vars

\* The chat variant has ended a turn after a round of tools with the text
\* " done\n" of the second response, trimmed to "done".
C21_Witness ==
    /\ mode = "chat"
    /\ turn.phase = "DONE"
    /\ turn.nReq = 2
    /\ turn.executed
    /\ turn.response_text = <<" ", "d", "o", "n", "e", "\n">>
    /\ turn.answer = FinalText(<<"d", "o", "n", "e">>)

\* C22: in the responses variant the first request of a turn is the only
\* one that carries the assembled input; every later request carries
\* nothing but the outputs of the round just executed, one for each call of
\* the latest response, and names that response as the previous one.
C22_FollowupNamesLatestResponse ==
    (mode = "responses" /\ turn.phase = "AWAIT_MODEL")
        => /\ turn.nReq = 1
                  => /\ turn.request.kind = "initial"
                     /\ turn.request.previous_response_id = 0
                     /\ turn.request.outputs = <<>>
           /\ turn.nReq > 1
                  => /\ turn.request.kind = "followup"
                     /\ turn.request.context = "none"
                     /\ turn.request.previous_response_id = turn.response_id
                     /\ turn.nReq < CountCap => turn.response_id = turn.nReq - 1
                     /\ Len(turn.request.outputs) = Len(turn.calls)
                     /\ \A i \in 1..Len(turn.calls) :
                            turn.request.outputs[i].call_id = CallId(turn.response_id, i)

\* The third request of a turn: the outputs of the two calls of the second
\* response, under its id.
C22_Witness ==
    /\ mode = "responses"
    /\ turn.phase = "AWAIT_MODEL"
    /\ turn.nReq = 3
    /\ turn.request.kind = "followup"
    /\ turn.request.previous_response_id = 2
    /\ Len(turn.request.outputs) = 2
    /\ turn.request.outputs[2].call_id = CallId(2, 2)

\* C27: a turn that is no greeting makes at most one web lookup of its own,
\* and makes it before its first request; when the lookup fails the first
\* request carries the system note of the failure; when it succeeds with a
\* blank summary, and when the input gives no query, the first request
\* carries no web context, and in the latter case no lookup is made.
C27_PrefetchBeforeFirstRequest ==
    /\ [](turn.phase # "IDLE" /\ maybe_handle_smalltalk(turn.user_input) = None
              => /\ turn.nLookups <= 1
                 /\ turn.lookup \in {"failed", "raised"}
                        => (turn.nReq >= 1 /\ turn.context = "note")
                 /\ turn.lookup = "empty" => (turn.nReq >= 1 /\ turn.context = "none")
                 /\ extract_lookup_query(turn.user_input).none
                        => (turn.nLookups = 0 /\ turn.nReq >= 1 /\ turn.context = "none")
                 /\ (turn.phase = "AWAIT_MODEL" /\ turn.nReq = 1)
                        => turn.request.context = turn.context)
    /\ [][turn'.phase # "IDLE" /\ turn.phase \notin {"IDLE", "DONE", "STOPPED", "RAISED"}
              => /\ turn'.nLookups = turn.nLookups
                 /\ turn'.lookup = turn.lookup
                 /\ turn'.context = turn.context]_vars

----------------------------------------------------------------------------
(* The claims about the transcript store (SpecMemory).                     *)

C14_CorruptReadsEmpty ==
    (recalled.called /\ memFile.kind \in {"text", "object", "string", "bytes"})
        => (~recalled.raised /\ recalled.items = <<>>)

\* C19: as long as one process alone has written the transcript file and
\* nothing else has touched it, the file holds every entry whose append
\* has completed, in the order of the appends; with two writers an append
\* can be lost (C19_LostUpdate is reachable).
C19_SingleWriterLosesNothing ==
    (memHist.tampers = 0 /\ \E p \in Procs : memHist.writers \subseteq {p})
        => /\ memFile.kind \in {"absent", "array"}
           /\ memFile.items = memHist.log

\* Both processes have completed one append each and the file holds one
\* entry: the write of the one has overwritten the entry of the other.
C19_LostUpdate ==
    /\ memHist.tampers = 0
    /\ memHist.writers = Procs
    /\ \A p \in Procs : memProcs[p].pc = "idle"
    /\ Len(memHist.log) = 2
    /\ memFile.kind = "array"
    /\ Len(memFile.items) = 1

\* C24: on a transcript of L entries recent(n) returns, for every n >= 0,
\* exactly min(n, L) entries, the last min(n, L) of the transcript in their
\* order; recent(0) returns the empty list.
C24_RecentLastMin ==
    (recalled.called /\ memFile.kind \in {"absent", "array"})
        => /\ ~recalled.raised
           /\ recalled.py = "list"
           /\ Len(recalled.items) = Min(recalled.count, Len(memFile.items))
           /\ \A i \in 1..Len(recalled.items) :
                  recalled.items[i]
                      = memFile.items[Len(memFile.items) - Len(recalled.items) + i]

\* The entries a transcript file holds: those of its JSON array; a file
\* that is absent or no JSON holds none.
Entries(file) == IF file.kind = "array" THEN file.items ELSE <<>>

----------------------------------------------------------------------------
(* The claim about the mode selection (SpecMode).                          *)

\* The host of a URL: what stands between "://" and the next "/", "?" or
\* "#", without the port; an IPv6 address keeps its brackets.
IndexOfFirst(s, chars) ==
    IF \E i \in 1..Len(s) : s[i] \in chars
    THEN CHOOSE i \in 1..Len(s) : s[i] \in chars /\ \A j \in 1..(i - 1) : s[j] \notin chars
    ELSE Len(s) + 1
AfterScheme(s) ==
    IF Contains(s, <<":", "/", "/">>)
    THEN LET i == CHOOSE i \in 1..Len(s) :
                      /\ SubSeq(s, i, i + 2) = <<":", "/", "/">>
                      /\ \A j \in 1..(i - 1) : SubSeq(s, j, j + 2) # <<":", "/", "/">>
         IN  SubSeq(s, i + 3, Len(s))
    ELSE s
Authority(s) == SubSeq(AfterScheme(s), 1, IndexOfFirst(AfterScheme(s), {"/", "?", "#"}) - 1)
Host(s) ==
    LET a == Lower(Authority(s))
    IN  IF a # <<>> /\ a[1] = "["
        THEN SubSeq(a, 1, IndexOfFirst(a, {"]"}))
        ELSE SubSeq(a, 1, IndexOfFirst(a, {":"}) - 1)
\* localhost, the addresses 127.x.x.x and ::1
IsLoopback(host) ==
    \/ host = Localhost
    \/ host = <<"[", ":", ":", "1", "]">>
    \/ (Len(host) >= 4 /\ SubSeq(host, 1, 4) = <<"1", "2", "7", ".">>
           /\ \A i \in 1..Len(host) : host[i] \in Digits \cup {"."})

\* C16: _choose_api_mode returns the explicit mode when it is "responses"
\* or "chat"; otherwise "responses" when no base URL is configured, "chat"
\* when the host of the base URL is a loopback address, and "responses"
\* for every base URL whose host is no loopback address.
C16_ModeSelection ==
    LET explicit == selection.mode \in {"responses", "chat"}
        configured == selection.base_url.given /\ selection.base_url.text # <<>>
        loopback == IsLoopback(Host(selection.base_url.text))
    IN  selection.done =>
            /\ explicit => selection.result = selection.mode
            /\ (~explicit /\ ~configured) => selection.result = "responses"
            /\ (~explicit /\ configured /\ loopback) => selection.result = "chat"
            /\ (~explicit /\ configured /\ ~loopback) => selection.result = "responses"

----------------------------------------------------------------------------
(* The claims about the shells (SpecShell).                                *)

\* C17: in the window at most one _run_agent thread runs at any time, and
\* busy is assigned on the interface thread only; a send while busy starts
\* no thread, shows nothing in the transcript and leaves the input box as
\* it is.
C17_OneWorker ==
    /\ [](shell.kind = "gui" => (shell.workers <= 1 /\ shell.busySetBy \subseteq {"interface"}))
    /\ [][(shell.kind = "gui" /\ shell.busy /\ shell'.sendTick # shell.sendTick)
              => /\ shell'.workers = shell.workers
                 /\ shell'.transcript = shell.transcript
                 /\ shell'.input_box = shell.input_box
                 /\ shell'.busy = shell.busy]_vars

\* A send while a turn was running: the typed text is still in the box.
C17_Witness ==
    /\ shell.kind = "gui"
    /\ shell.busy
    /\ shell.workers = 1
    /\ shell.lastSend = "busy"
    /\ shell.input_box = <<"f", "i", "x", " ", "i", "t">>

\* C18: once the startup has succeeded, the process of either shell ends
\* only when the user stops it: no failure of a turn (a request to the
\* provider, a tool, a web lookup) ends it.
C18_TurnFailureNotFatal == shell.started => shell.pc # "crashed"

\* The entries of one turn lie together in a transcript: every assistant
\* entry stands right after the user entry that was appended just before it.
PairedEntries(items) ==
    \A i \in 1..Len(items) :
        items[i].role = "assistant"
            => /\ i > 1
               /\ items[i - 1].role = "user"
               /\ items[i - 1].ts + 1 = items[i].ts

\* C28: in the window the user entry and the assistant entry of a turn are
\* appended to the transcript file of the same workspace, the user entry
\* first, also when Connect is pressed with another workspace while the
\* thread of the turn runs.
C28_TurnEntriesTogether ==
    shell.kind = "gui"
        => /\ PairedEntries(Entries(memFile))
           /\ PairedEntries(Entries(shell.otherFile))

\* C29: in the window every send that starts a turn is followed by its
\* completion on the interface thread, which appends one assistant entry
\* and sets busy to false, whether the turn returned or raised; busy is
\* true only while the thread of the turn runs or its answer waits for the
\* interface thread.
C29_SendCompletes ==
    /\ [](shell.kind = "gui" /\ shell.busy
              => (shell.workers = 1 \/ Len(shell.after) = 1))
    /\ [][(shell.kind = "gui" /\ shell.busy /\ ~shell'.busy)
              => /\ shell.after # <<>>
                 /\ shell'.after = Tail(shell.after)
                 /\ shell'.clock = shell.clock + 1
                 /\ shell'.transcript
                        = Append(shell.transcript, Line("agent", <<>>, Head(shell.after)))]_vars
    /\ (shell.kind = "gui" /\ shell.busy) ~> ~shell.busy

\* C30: in the console loop every line that is not blank and not exit or
\* quit appends two entries, the user entry before the turn and the
\* assistant entry after it, so that the transcript of the session
\* alternates user, assistant; a blank line, exit and quit append nothing
\* and make no request.
C30_TwoEntriesPerInput ==
    /\ [](shell.kind = "cli" /\ shell.pc \notin {"startup", "exited"}
              => /\ shell.pc \in {"input", "stopped", "crashed"}
                        => Len(Entries(memFile)) = 2 * shell.turns
                 /\ shell.pc = "turn" => Len(Entries(memFile)) = 2 * shell.turns - 1
                 /\ \A i \in 1..Len(Entries(memFile)) :
                        memFile.items[i].role = IF i % 2 = 1 THEN "user" ELSE "assistant")
    /\ [][(shell.kind = "cli" /\ shell.pc = "input" /\ shell'.pc \in {"input", "stopped"})
              => (memFile' = memFile /\ turn' = turn)]_vars

----------------------------------------------------------------------------
(* The claims about the message list of run_turn_chat (SpecChat).          *)

IsPrefix(s, t) == Len(s) <= Len(t) /\ SubSeq(t, 1, Len(s)) = s

\* Every assistant message is followed by one tool message per call it
\* carries, in order and under the call's id; every tool message is one of
\* those; and no call id has two tool messages.
WellFormed(list) ==
    /\ \A j \in 1..Len(list) :
           list[j].role = "assistant"
               => \A i \in 1..Len(list[j].tool_calls) :
                      /\ j + i <= Len(list)
                      /\ list[j + i].role = "tool"
                      /\ list[j + i].tool_call_id = list[j].tool_calls[i]
    /\ \A k \in 1..Len(list) :
           list[k].role = "tool"
               => /\ \E j \in 1..(k - 1) :
                         /\ list[j].role = "assistant"
                         /\ k - j \in 1..Len(list[j].tool_calls)
                         /\ list[k].tool_call_id = list[j].tool_calls[k - j]
                  /\ \A m \in 1..Len(list) :
                         (list[m].role = "tool"
                              /\ list[m].tool_call_id = list[k].tool_call_id) => m = k

\* C23: in the chat variant the message list of every request extends the
\* list of the request before it in the turn, nothing removed or reordered,
\* and the list sent is well formed: each assistant message with tool calls
\* is followed by exactly one tool message per call, with the call's id, and
\* every tool message follows the assistant message that carries its call.
C23_MessageListGrows ==
    /\ [](turn.phase = "AWAIT_MODEL"
              => /\ messages.sent = messages.list
                 /\ messages.requests = turn.nReq
                 /\ WellFormed(messages.sent))
    /\ [][(turn'.phase = "AWAIT_MODEL" /\ turn'.nReq > 1 /\ turn.phase # "AWAIT_MODEL")
              => /\ IsPrefix(messages.sent, messages'.sent)
                 /\ Len(messages'.sent) = Len(messages.sent) + 1 + Len(turn.calls)
                 /\ messages'.requests = messages.requests + 1]_vars

\* The third request of a turn whose second response carried two calls.
C23_Witness ==
    /\ mode = "chat"
    /\ turn.phase = "AWAIT_MODEL"
    /\ messages.requests = 3
    /\ Len(turn.request.outputs) = 2
    /\ messages.sent[Len(messages.sent) - 2].role = "assistant"
    /\ Len(messages.sent[Len(messages.sent) - 2].tool_calls) = 2
    /\ messages.sent[Len(messages.sent)].tool_call_id = CallId(2, 2)

====
